---- MODULE Spec2Model ----
(***************************************************************************)
(* RTP parameter negotiation core of mediasoup (rust/src/ortc.rs).         *)
(*                                                                         *)
(* The functions of ortc.rs are pure; the state machine below runs them as *)
(* the pipeline the router runs them in:                                   *)
(*   generate_router_rtp_capabilities  (one action per loop iteration)     *)
(*   get_producer_rtp_parameters_mapping                                   *)
(*   get_consumable_rtp_parameters                                         *)
(*   get_consumer_rtp_parameters or get_pipe_consumer_rtp_parameters       *)
(* The inputs of the pipeline are drawn in Init; the random SSRC is drawn  *)
(* in the action that calls generate_ssrc(). Some specifications also      *)
(* start at a direct call of one of the functions, with its arguments.     *)
(*                                                                         *)
(* Option<T> is a sequence of length 0 (None) or 1 (Some).                 *)
(* RtpCodecParametersParameters is a function from parameter names to      *)
(* values; a value is [num |-> n] (Number) or [str |-> s] (String).        *)
(***************************************************************************)
EXTENDS Integers, Sequences, FiniteSets, TLC

VARIABLES
    pc,                     \* position in the pipeline
    media_codecs,           \* input of generate_router_rtp_capabilities
    idx,                    \* index of the media codec the loop is at
    dynamic_payload_types,  \* the finalizer's pool of dynamic payload types
    caps,                   \* RtpCapabilitiesFinalized being built / built
    router_error,           \* Option<RtpCapabilitiesError>
    kind,                   \* MediaKind of the producer
    rtp_parameters,         \* RtpParameters of the producer
    rtp_mapping,            \* RtpMapping
    mapping_error,          \* Option<RtpParametersMappingError>, or the abort
    consumable_params,      \* RtpParameters (consumable)
    consumer_caps,          \* RtpCapabilities of the consumer
    consumer_params,        \* RtpParameters of the consumer
    consumer_error,         \* Option<ConsumerRtpParametersError>
    pipe_enable_rtx,        \* enable_rtx of get_pipe_consumer_rtp_parameters
    pipe_consumer_params,   \* RtpParameters of the pipe consumer
    matching,               \* arguments and result of a call of match_codecs
    can_consume_result      \* Option<Result<bool, RtpCapabilitiesError>>

vars == <<pc, media_codecs, idx, dynamic_payload_types, caps, router_error,
          kind, rtp_parameters, rtp_mapping, mapping_error, consumable_params,
          consumer_caps, consumer_params, consumer_error, pipe_enable_rtx,
          pipe_consumer_params, matching, can_consume_result>>

\* the variables of the consumers
consumer_vars == <<consumer_caps, consumer_params, consumer_error, pipe_enable_rtx,
                   pipe_consumer_params, can_consume_result>>

----------------------------------------------------------------------------
(* Values *)

None == <<>>
Some(x) == <<x>>
IsSome(o) == o # <<>>
Unwrap(o) == o[1]

Num(n) == [num |-> n]
Str(s) == [str |-> s]
IsNumber(v) == DOMAIN v = {"num"}
IsString(v) == DOMAIN v = {"str"}

NoParameters == <<>>

\* RtpCodecParametersParameters::get
ParamGet(parameters, key) ==
    IF key \in DOMAIN parameters THEN Some(parameters[key]) ELSE None

\* RtpCodecParametersParameters::extend: the entries of `more` are inserted
\* over those of `parameters`.
ParamExtend(parameters, more) ==
    [k \in (DOMAIN parameters) \cup (DOMAIN more) |->
        IF k \in DOMAIN more THEN more[k] ELSE parameters[k]]

\* RtpCodecParametersParameters::insert
ParamInsert(parameters, key, value) ==
    [k \in (DOMAIN parameters) \cup {key} |->
        IF k = key THEN value ELSE parameters[k]]

\* Vec::retain(|&pt| pt != x)
RECURSIVE RetainNot(_, _)
RetainNot(s, x) ==
    IF s = <<>> THEN <<>>
    ELSE (IF Head(s) # x THEN <<Head(s)>> ELSE <<>>) \o RetainNot(Tail(s), x)

\* the least element of a set of indices, 0 for the empty set
MinOrZero(S) == IF S = {} THEN 0 ELSE CHOOSE i \in S : \A j \in S : i <= j

\* Iterator::find is MinOrZero of the indices of the elements that satisfy the
\* predicate: the index of the first such element, 0 if none

\* The sequences of length at most n over S
SeqsUpTo(S, n) == UNION {[1..k -> S] : k \in 0..n}

\* n copies of x
Rep(x, n) == [i \in 1..n |-> x]

----------------------------------------------------------------------------
(* Codecs *)

AudioCapability(mime, ppt, clock, channels, parameters, feedback) ==
    [kind |-> "audio", mime_type |-> mime, preferred_payload_type |-> ppt,
     clock_rate |-> clock, channels |-> Some(channels),
     parameters |-> parameters, rtcp_feedback |-> feedback]

VideoCapability(mime, ppt, clock, parameters, feedback) ==
    [kind |-> "video", mime_type |-> mime, preferred_payload_type |-> ppt,
     clock_rate |-> clock, channels |-> None,
     parameters |-> parameters, rtcp_feedback |-> feedback]

\* RtpCodecParameters::Audio / ::Video
CodecParameters(k, mime, pt, clock, channels, parameters, feedback) ==
    [kind |-> k, mime_type |-> mime, payload_type |-> pt,
     clock_rate |-> clock, channels |-> channels,
     parameters |-> parameters, rtcp_feedback |-> feedback]

\* is_rtx() of RtpCodecParameters and RtpCodecCapabilityFinalized
is_rtx(codec) == codec.mime_type = "video/rtx"

\* impl From<&RtpCodec...> for CodecToMatch
CodecToMatch(codec) ==
    [channels   |-> IF codec.kind = "audio" THEN codec.channels ELSE None,
     clock_rate |-> codec.clock_rate,
     mime_type  |-> codec.mime_type,
     parameters |-> codec.parameters]

----------------------------------------------------------------------------
(* H.264 profile-level-id helper (crate h264_profile_level_id) *)

ProfileLevelId(profile, level, id) ==
    [profile |-> profile, level |-> level, id |-> id]

\* the profile and the level_idc of the profile-level-id strings of the model
ProfileLevelIds ==
    {ProfileLevelId("ConstrainedBaseline", 31, "42e01f"),
     ProfileLevelId("ConstrainedBaseline", 52, "42e034"),
     ProfileLevelId("Main", 50, "4d0032"),
     ProfileLevelId("High", 50, "640032")}

\* Option of the element of a set with at most one element
OptionOf(S) == IF S = {} THEN None ELSE Some(CHOOSE x \in S : TRUE)

\* parse of an optional string; no string is constrained baseline, level 3.1;
\* a string that is no profile-level-id is None
ParseProfileLevelId(s) ==
    IF s = None THEN Some(ProfileLevelId("ConstrainedBaseline", 31, "42e01f"))
    ELSE OptionOf({p \in ProfileLevelIds : p.id = Unwrap(s)})

SameProfile(pa, pb) ==
    IF pa = None \/ pb = None THEN None
    ELSE IF Unwrap(pa).profile # Unwrap(pb).profile THEN None
    ELSE Some(<<Unwrap(pa), Unwrap(pb)>>)

\* is_same_profile(a, b) -> Option<(ProfileLevelId, ProfileLevelId)>
is_same_profile(a, b) == SameProfile(ParseProfileLevelId(a), ParseProfileLevelId(b))

\* ProfileLevelId::to_string
ProfileLevelIdToString(profile, level) ==
    (CHOOSE p \in ProfileLevelIds : p.profile = profile /\ p.level = level).id

\* generate_profile_level_id_for_answer(local, local_asym, remote, remote_asym):
\* the local level when both sides allow level asymmetry, else the lower level
generate_profile_level_id_for_answer(local, local_asym, remote, remote_asym) ==
    IF local.profile # remote.profile THEN None
    ELSE IF local_asym /\ remote_asym
    THEN Some(ProfileLevelIdToString(local.profile, local.level))
    ELSE IF local.level < remote.level
    THEN Some(ProfileLevelIdToString(local.profile, local.level))
    ELSE Some(ProfileLevelIdToString(local.profile, remote.level))

----------------------------------------------------------------------------
(* match_codecs *)

MatchErr == [ok |-> FALSE, profile_level_id |-> None]
MatchOk(selected) == [ok |-> TRUE, profile_level_id |-> selected]

\* the string of a parameter value, None for a number or no value
StringOf(value) ==
    IF value = None THEN None
    ELSE IF IsString(Unwrap(value)) THEN Some(Unwrap(value).str) ELSE None

ProfileLevelIdParam(parameters) ==
    StringOf(ParamGet(parameters, "profile-level-id"))

LevelAsymmetryAllowed(parameters) ==
    ParamGet(parameters, "level-asymmetry-allowed") = Some(Num(1))

\* parameters.get(key).unwrap_or(&Number(0))
ParamOrZero(parameters, key) ==
    IF key \in DOMAIN parameters THEN parameters[key] ELSE Num(0)

\* the result of a strict H.264 match (lines 1001-1035)
SelectedProfileLevelId(selected) ==
    IF selected = None THEN MatchErr ELSE MatchOk(selected)

MatchProfileLevelId(same, asym_a, asym_b) ==
    IF same = None THEN MatchErr
    ELSE SelectedProfileLevelId(
             generate_profile_level_id_for_answer(Unwrap(same)[1], asym_a,
                                                  Unwrap(same)[2], asym_b))

\* a variant of match_codecs that compares the VP9 profile-id whether strict
\* or not
match_codecs_profile_id_always(codec_a, codec_b, strict) ==
    IF codec_a.mime_type # codec_b.mime_type THEN MatchErr
    ELSE IF codec_a.channels # codec_b.channels THEN MatchErr
    ELSE IF codec_a.clock_rate # codec_b.clock_rate THEN MatchErr
    ELSE IF codec_a.mime_type = "video/H264" THEN
        IF ParamOrZero(codec_a.parameters, "packetization-mode")
              # ParamOrZero(codec_b.parameters, "packetization-mode")
        THEN MatchErr
        ELSE IF strict
        THEN MatchProfileLevelId(
                 is_same_profile(ProfileLevelIdParam(codec_a.parameters),
                                 ProfileLevelIdParam(codec_b.parameters)),
                 LevelAsymmetryAllowed(codec_a.parameters),
                 LevelAsymmetryAllowed(codec_b.parameters))
        ELSE MatchOk(None)
    ELSE IF codec_a.mime_type = "video/VP9" THEN
        IF ParamOrZero(codec_a.parameters, "profile-id")
               # ParamOrZero(codec_b.parameters, "profile-id")
        THEN MatchErr
        ELSE MatchOk(None)
    ELSE MatchOk(None)

\* a variant of match_codecs that compares the packetization-mode only when
\* codec_a has one
match_codecs_mode_of_a(codec_a, codec_b, strict) ==
    IF codec_a.mime_type # codec_b.mime_type THEN MatchErr
    ELSE IF codec_a.channels # codec_b.channels THEN MatchErr
    ELSE IF codec_a.clock_rate # codec_b.clock_rate THEN MatchErr
    ELSE IF codec_a.mime_type = "video/H264" THEN
        IF /\ "packetization-mode" \in DOMAIN codec_a.parameters
           /\ codec_a.parameters["packetization-mode"]
                  # ParamOrZero(codec_b.parameters, "packetization-mode")
        THEN MatchErr
        ELSE IF strict
        THEN MatchProfileLevelId(
                 is_same_profile(ProfileLevelIdParam(codec_a.parameters),
                                 ProfileLevelIdParam(codec_b.parameters)),
                 LevelAsymmetryAllowed(codec_a.parameters),
                 LevelAsymmetryAllowed(codec_b.parameters))
        ELSE MatchOk(None)
    ELSE IF codec_a.mime_type = "video/VP9" THEN
        IF strict /\ ParamOrZero(codec_a.parameters, "profile-id")
                        # ParamOrZero(codec_b.parameters, "profile-id")
        THEN MatchErr
        ELSE MatchOk(None)
    ELSE MatchOk(None)

match_codecs(codec_a, codec_b, strict) ==
    IF codec_a.mime_type # codec_b.mime_type THEN MatchErr
    ELSE IF codec_a.channels # codec_b.channels THEN MatchErr
    ELSE IF codec_a.clock_rate # codec_b.clock_rate THEN MatchErr
    ELSE IF codec_a.mime_type = "video/H264" THEN
        IF ParamOrZero(codec_a.parameters, "packetization-mode")
              # ParamOrZero(codec_b.parameters, "packetization-mode")
        THEN MatchErr
        ELSE IF strict
        THEN MatchProfileLevelId(
                 is_same_profile(ProfileLevelIdParam(codec_a.parameters),
                                 ProfileLevelIdParam(codec_b.parameters)),
                 LevelAsymmetryAllowed(codec_a.parameters),
                 LevelAsymmetryAllowed(codec_b.parameters))
        ELSE MatchOk(None)
    ELSE IF codec_a.mime_type = "video/VP9" THEN
        IF strict /\ ParamOrZero(codec_a.parameters, "profile-id")
                        # ParamOrZero(codec_b.parameters, "profile-id")
        THEN MatchErr
        ELSE MatchOk(None)
    ELSE MatchOk(None)

\* match_codecs(a.into(), b.into(), strict)
Matches(a, b, strict) == match_codecs(CodecToMatch(a), CodecToMatch(b), strict)

----------------------------------------------------------------------------
(* Supported RTP capabilities *)

VideoFeedback == <<"nack", "nack-pli", "ccm-fir", "goog-remb", "transport-cc">>

\* supported_rtp_capabilities::get_supported_rtp_capabilities().codecs
SupportedCodecs == <<
    AudioCapability("audio/opus", None, 48000, 2, NoParameters, <<"transport-cc">>),
    AudioCapability("audio/PCMU", Some(0), 8000, 1, NoParameters, <<"transport-cc">>),
    VideoCapability("video/VP8", None, 90000, NoParameters, VideoFeedback),
    VideoCapability("video/VP9", None, 90000, NoParameters, VideoFeedback),
    VideoCapability("video/H264", None, 90000,
        ("packetization-mode" :> Num(1)) @@ ("level-asymmetry-allowed" :> Num(1)),
        VideoFeedback),
    VideoCapability("video/H264", None, 90000,
        ("packetization-mode" :> Num(0)) @@ ("level-asymmetry-allowed" :> Num(1)),
        VideoFeedback) >>

HeaderExtension(k, uri, id, direction) ==
    [kind |-> k, uri |-> uri, preferred_id |-> id, preferred_encrypt |-> FALSE,
     direction |-> direction]

\* supported_rtp_capabilities::get_supported_rtp_capabilities().header_extensions
SupportedHeaderExtensions == <<
    HeaderExtension(Some("audio"), "MID", 1, "sendrecv"),
    HeaderExtension(Some("video"), "MID", 1, "sendrecv"),
    HeaderExtension(Some("video"), "RtpStreamId", 2, "recvonly"),
    HeaderExtension(Some("audio"), "AbsSendTime", 4, "sendrecv"),
    HeaderExtension(Some("video"), "AbsSendTime", 4, "sendrecv"),
    HeaderExtension(Some("audio"), "TransportWideCCDraft01", 5, "recvonly"),
    HeaderExtension(Some("video"), "TransportWideCCDraft01", 5, "sendrecv"),
    HeaderExtension(Some("audio"), "AudioLevel", 10, "sendrecv"),
    HeaderExtension(Some("video"), "VideoOrientation", 11, "sendrecv"),
    HeaderExtension(Some("video"), "TimeOffset", 12, "sendrecv") >>

get_supported_rtp_capabilities ==
    [codecs |-> SupportedCodecs,
     header_extensions |-> SupportedHeaderExtensions,
     fec_mechanisms |-> <<>>]

----------------------------------------------------------------------------
(* generate_router_rtp_capabilities *)

DYNAMIC_PAYLOAD_TYPES == <<
    100, 101, 102, 103, 104, 105, 106, 107, 108, 109, 110, 111, 112, 113, 114,
    115, 116, 117, 118, 119, 120, 121, 122, 123, 124, 125, 126, 127, 96, 97,
    98, 99 >>

CapabilitiesError(name, mime, pt, text) ==
    [error |-> name, mime_type |-> mime, payload_type |-> pt, text |-> text]

\* validate_rtp_codec_capability: Option<RtpCapabilitiesError>
validate_rtp_codec_capability(codec) ==
    IF /\ "apt" \in DOMAIN codec.parameters
       /\ IsString(codec.parameters["apt"])
    THEN Some(CapabilitiesError("InvalidAptParameter", "", None,
                                codec.parameters["apt"].str))
    ELSE None

\* validate_rtp_capabilities: the first error over the codecs
FirstInvalid(codecs, i) ==
    IF i = 0 THEN None ELSE validate_rtp_codec_capability(codecs[i])

validate_rtp_capabilities(codecs) ==
    FirstInvalid(codecs,
        MinOrZero({i \in DOMAIN codecs :
                      validate_rtp_codec_capability(codecs[i]) # None}))

\* a variant of FindSupportedCodec that matches strictly
FindSupportedCodecStrict(media_codec) ==
    MinOrZero({i \in DOMAIN SupportedCodecs :
                  Matches(media_codec, SupportedCodecs[i], TRUE).ok})

\* the supported codec the media codec matches (lines 187-199): its index in
\* the table, 0 if none
FindSupportedCodec(media_codec) ==
    MinOrZero({i \in DOMAIN SupportedCodecs :
                  Matches(media_codec, SupportedCodecs[i], FALSE).ok})

\* a variant of ChoosePayloadType that leaves the preferred payload type of
\* the media codec in the pool
ChoosePayloadTypeKeepPool(media_codec, codec, pool) ==
    IF IsSome(media_codec.preferred_payload_type)
    THEN [error |-> None,
          preferred_payload_type |-> Unwrap(media_codec.preferred_payload_type),
          dynamic_payload_types |-> pool]
    ELSE IF IsSome(codec.preferred_payload_type)
    THEN [error |-> None,
          preferred_payload_type |-> Unwrap(codec.preferred_payload_type),
          dynamic_payload_types |-> pool]
    ELSE IF pool = <<>>
    THEN [error |-> Some(CapabilitiesError("CannotAllocate", "", None, "")),
          preferred_payload_type |-> 0,
          dynamic_payload_types |-> pool]
    ELSE [error |-> None,
          preferred_payload_type |-> Head(pool),
          dynamic_payload_types |-> Tail(pool)]

\* The choice of the preferred payload type (lines 201-226):
\* [error, preferred_payload_type, dynamic_payload_types]
ChoosePayloadType(media_codec, codec, pool) ==
    IF IsSome(media_codec.preferred_payload_type)
    THEN [error |-> None,
          preferred_payload_type |-> Unwrap(media_codec.preferred_payload_type),
          dynamic_payload_types |->
              RetainNot(pool, Unwrap(media_codec.preferred_payload_type))]
    ELSE IF IsSome(codec.preferred_payload_type)
    THEN [error |-> None,
          preferred_payload_type |-> Unwrap(codec.preferred_payload_type),
          dynamic_payload_types |-> pool]
    ELSE IF pool = <<>>
    THEN [error |-> Some(CapabilitiesError("CannotAllocate", "", None, "")),
          preferred_payload_type |-> 0,
          dynamic_payload_types |-> pool]
    ELSE [error |-> None,
          preferred_payload_type |-> Head(pool),
          dynamic_payload_types |-> Tail(pool)]

\* a variant of IsDuplicated that finds no duplicate
IsDuplicatedNever(codecs, preferred_payload_type) == FALSE

\* a variant of IsDuplicated that looks at the media codecs only, not at
\* their RTX companions
IsDuplicatedMedia(codecs, preferred_payload_type) ==
    \E i \in 1..Len(codecs) :
        /\ codecs[i].mime_type # "video/rtx"
        /\ codecs[i].preferred_payload_type = preferred_payload_type

\* "Ensure there is not duplicated preferredPayloadType values" (lines 229-235)
IsDuplicated(codecs, preferred_payload_type) ==
    \E i \in 1..Len(codecs) :
        codecs[i].preferred_payload_type = preferred_payload_type

\* a variant of FinalizeCodec whose shared parameters keep the value of the
\* supported codec
FinalizeCodecTableWins(codec, media_codec, preferred_payload_type) ==
    [kind |-> codec.kind,
     mime_type |-> codec.mime_type,
     preferred_payload_type |-> preferred_payload_type,
     clock_rate |-> codec.clock_rate,
     channels |-> codec.channels,
     parameters |-> ParamExtend(media_codec.parameters, codec.parameters),
     rtcp_feedback |-> codec.rtcp_feedback]

\* RtpCodecCapabilityFinalized built from the supported codec (lines 237-276)
FinalizeCodec(codec, media_codec, preferred_payload_type) ==
    [kind |-> codec.kind,
     mime_type |-> codec.mime_type,
     preferred_payload_type |-> preferred_payload_type,
     clock_rate |-> codec.clock_rate,
     channels |-> codec.channels,
     parameters |-> ParamExtend(codec.parameters, media_codec.parameters),
     rtcp_feedback |-> codec.rtcp_feedback]

\* a variant of RtxCodec whose apt is its own payload type
RtxCodecOwnApt(codec_finalized, payload_type) ==
    [kind |-> "video",
     mime_type |-> "video/rtx",
     preferred_payload_type |-> payload_type,
     clock_rate |-> codec_finalized.clock_rate,
     channels |-> None,
     parameters |-> ("apt" :> Num(payload_type)),
     rtcp_feedback |-> <<>>]

\* the RTX companion of a video codec (lines 286-295)
RtxCodec(codec_finalized, payload_type) ==
    [kind |-> "video",
     mime_type |-> "video/rtx",
     preferred_payload_type |-> payload_type,
     clock_rate |-> codec_finalized.clock_rate,
     channels |-> None,
     parameters |-> ("apt" :> Num(codec_finalized.preferred_payload_type)),
     rtcp_feedback |-> <<>>]

Iteration(error, codecs, pool) ==
    [error |-> error, codecs |-> codecs, dynamic_payload_types |-> pool]

\* a variant of AppendCodec that appends a video codec without its RTX
\* companion when the pool is empty
AppendCodecWithoutRtx(codecs, codec_finalized, pool) ==
    IF codec_finalized.kind = "video" /\ pool # <<>>
    THEN Iteration(None,
                   codecs \o <<codec_finalized,
                               [kind |-> "video",
                                mime_type |-> "video/rtx",
                                preferred_payload_type |-> Head(pool),
                                clock_rate |-> codec_finalized.clock_rate,
                                channels |-> None,
                                parameters |->
                                    ("apt" :> Num(codec_finalized.preferred_payload_type)),
                                rtcp_feedback |-> <<>>]>>,
                   Tail(pool))
    ELSE Iteration(None, Append(codecs, codec_finalized), pool)

\* the codecs one iteration appends (lines 278-303)
AppendCodec(codecs, codec_finalized, pool) ==
    IF codec_finalized.kind = "video"
    THEN IF pool = <<>>
         THEN Iteration(Some(CapabilitiesError("CannotAllocate", "", None, "")),
                        codecs, pool)
         ELSE Iteration(None,
                        codecs \o <<codec_finalized,
                                    RtxCodec(codec_finalized, Head(pool))>>,
                        Tail(pool))
    ELSE Iteration(None, Append(codecs, codec_finalized), pool)

\* lines 228-303, with the payload type chosen
AppendChosen(media_codec, codec, chosen, codecs, pool) ==
    IF chosen.error # None THEN Iteration(chosen.error, codecs, pool)
    ELSE IF IsDuplicated(codecs, chosen.preferred_payload_type)
    THEN Iteration(Some(CapabilitiesError("DuplicatedPreferredPayloadType", "",
                                          Some(chosen.preferred_payload_type), "")),
                   codecs, chosen.dynamic_payload_types)
    ELSE AppendCodec(codecs,
                     FinalizeCodec(codec, media_codec, chosen.preferred_payload_type),
                     chosen.dynamic_payload_types)

\* lines 187-303, with the index of the supported codec found
AppendSupported(media_codec, found, codecs, pool) ==
    IF found = 0
    THEN Iteration(Some(CapabilitiesError("UnsupportedCodec",
                                          media_codec.mime_type, None, "")),
                   codecs, pool)
    ELSE AppendChosen(media_codec, SupportedCodecs[found],
                      ChoosePayloadType(media_codec, SupportedCodecs[found], pool),
                      codecs, pool)

\* One iteration of `for media_codec in media_codecs.iter_mut()` (lines 184-304):
\* [error, codecs, dynamic_payload_types]
GenerateIteration(media_codec, codecs, pool) ==
    IF validate_rtp_codec_capability(media_codec) # None
    THEN Iteration(validate_rtp_codec_capability(media_codec), codecs, pool)
    ELSE AppendSupported(media_codec, FindSupportedCodec(media_codec), codecs, pool)

----------------------------------------------------------------------------
(* Ord of RtpCodecParameters, the key of the BTreeMap codec_to_cap_codec *)

\* the strings of the model in the order of str::cmp
StringOrder == <<
    "", "42e01f", "42e034", "4d0032", "640032", "apt", "bar", "foo",
    "level-asymmetry-allowed", "packetization-mode", "profile-id",
    "profile-level-id", "x" >>

StringRank(s) == CHOOSE i \in 1..Len(StringOrder) : StringOrder[i] = s

\* the variants of MimeTypeAudio and MimeTypeVideo in declaration order
MimeOrder == <<"audio/opus", "audio/PCMU", "video/VP8", "video/VP9",
               "video/H264", "video/rtx">>

MimeRank(m) == CHOOSE i \in 1..Len(MimeOrder) : MimeOrder[i] = m

\* the variants of RtcpFeedback in declaration order
FeedbackOrder == <<"nack", "nack-pli", "ccm-fir", "goog-remb", "transport-cc",
                   "unsupported">>

FeedbackRank(fb) == CHOOSE i \in 1..Len(FeedbackOrder) : FeedbackOrder[i] = fb

\* Ord of sequences of integers (lexicographic, a proper prefix is less)
RECURSIVE LexLess(_, _)
LexLess(a, b) ==
    IF b = <<>> THEN FALSE
    ELSE IF a = <<>> THEN TRUE
    ELSE IF Head(a) # Head(b) THEN Head(a) < Head(b)
    ELSE LexLess(Tail(a), Tail(b))

\* one entry of a parameters map as integers: the key, then the value (String
\* before Number, the order of the variants of RtpCodecParametersParametersValue)
ParameterOrdEntry(parameters, i) ==
    IF StringOrder[i] \notin DOMAIN parameters THEN <<>>
    ELSE IF IsString(parameters[StringOrder[i]])
    THEN <<i, 0, StringRank(parameters[StringOrder[i]].str)>>
    ELSE <<i, 1, parameters[StringOrder[i]].num>>

\* the entries of a parameters map in key order, as integers
RECURSIVE ParametersOrdKey(_, _)
ParametersOrdKey(parameters, i) ==
    IF i > Len(StringOrder) THEN <<>>
    ELSE ParameterOrdEntry(parameters, i) \o ParametersOrdKey(parameters, i + 1)

FeedbackOrdKey(feedback) == [i \in 1..Len(feedback) |-> FeedbackRank(feedback[i])]

\* the fields of a codec before parameters, as integers
CodecOrdHead(c) ==
    <<IF c.kind = "audio" THEN 0 ELSE 1, MimeRank(c.mime_type),
      c.payload_type, c.clock_rate,
      IF c.channels = None THEN 0 ELSE Unwrap(c.channels)>>

\* derive(Ord): the variant, then the fields in declaration order
CodecLess(a, b) ==
    IF CodecOrdHead(a) # CodecOrdHead(b)
    THEN LexLess(CodecOrdHead(a), CodecOrdHead(b))
    ELSE IF a.parameters # b.parameters
    THEN LexLess(ParametersOrdKey(a.parameters, 1),
                 ParametersOrdKey(b.parameters, 1))
    ELSE LexLess(FeedbackOrdKey(a.rtcp_feedback),
                 FeedbackOrdKey(b.rtcp_feedback))

\* the map with the entry at the place of the equal key, else before the first
\* greater key, else at the end
InsertAt(map, entry, at, before) ==
    IF at # 0 THEN [map EXCEPT ![at] = entry]
    ELSE IF before = 0 THEN Append(map, entry)
    ELSE SubSeq(map, 1, before - 1) \o <<entry>> \o SubSeq(map, before, Len(map))

\* BTreeMap::insert: the entries stay sorted by key; an equal key keeps its
\* place and takes the new value
BTreeInsert(map, key, value) ==
    InsertAt(map, [key |-> key, value |-> value],
             MinOrZero({i \in DOMAIN map : map[i].key = key}),
             MinOrZero({i \in DOMAIN map : CodecLess(key, map[i].key)}))

ValueAt(map, at) == IF at = 0 THEN None ELSE Some(map[at].value)

\* BTreeMap::get
BTreeGet(map, key) ==
    ValueAt(map, MinOrZero({i \in DOMAIN map : map[i].key = key}))

----------------------------------------------------------------------------
(* get_producer_rtp_parameters_mapping *)

MappingError(name, mime, pt) ==
    [error |-> name, mime_type |-> mime, payload_type |-> pt]

\* "Include selected profile-level-id in the mapped codec" (lines 333-339)
WithProfileLevelId(cap_codec, profile_level_id) ==
    IF IsSome(profile_level_id)
    THEN [cap_codec EXCEPT !.parameters =
              ParamInsert(@, "profile-level-id", Str(Unwrap(profile_level_id)))]
    ELSE cap_codec

MatchedCapCodec(codec, cap_codecs, i) ==
    IF i = 0 THEN None
    ELSE Some(WithProfileLevelId(cap_codecs[i],
                  Matches(codec, cap_codecs[i], TRUE).profile_level_id))

\* the greatest element of a set of indices, 0 for the empty set
MaxOrZero(S) == IF S = {} THEN 0 ELSE CHOOSE i \in S : \A j \in S : i >= j

\* a variant of FindCapCodec that takes the last capability codec that matches
FindLastCapCodec(codec, cap_codecs) ==
    MatchedCapCodec(codec, cap_codecs,
        MaxOrZero({i \in DOMAIN cap_codecs :
                      Matches(codec, cap_codecs[i], TRUE).ok}))

\* find_map over the capability codecs (lines 327-343): the first capability
\* codec that strictly matches, with the selected profile-level-id written in
FindCapCodec(codec, cap_codecs) ==
    MatchedCapCodec(codec, cap_codecs,
        MinOrZero({i \in DOMAIN cap_codecs :
                      Matches(codec, cap_codecs[i], TRUE).ok}))

Matching(error, map) == [error |-> error, map |-> map]

\* lines 345-353, with the capability codec found
InsertMatched(codec, matched, acc) ==
    IF matched = None
    THEN Matching(Some(MappingError("UnsupportedCodec", codec.mime_type,
                                    Some(codec.payload_type))),
                  acc.map)
    ELSE Matching(None, BTreeInsert(acc.map, codec, Unwrap(matched)))

\* "Match parameters media codecs to capabilities media codecs" (lines 321-354),
\* one iteration: [error, map]
MatchMediaCodec(codec, cap_codecs, acc) ==
    IF acc.error # None \/ is_rtx(codec) THEN acc
    ELSE InsertMatched(codec, FindCapCodec(codec, cap_codecs), acc)

\* the loop, which returns at the first error
RECURSIVE MatchMediaCodecs(_, _, _, _)
MatchMediaCodecs(codecs, cap_codecs, i, acc) ==
    IF i > Len(codecs) THEN acc
    ELSE MatchMediaCodecs(codecs, cap_codecs, i + 1,
                          MatchMediaCodec(codecs[i], cap_codecs, acc))

\* the number of a parameter value, None for a string or no value
NumberOf(value) ==
    IF value = None THEN None
    ELSE IF IsNumber(Unwrap(value)) THEN Some(Unwrap(value).num) ELSE None

\* the apt of a codec when it is a Number
AptNumber(codec) == NumberOf(ParamGet(codec.parameters, "apt"))

\* "Search for the associated media codec" (lines 363-373): index, 0 if none
FindAssociatedMediaCodec(codecs, codec) ==
    MinOrZero({i \in DOMAIN codecs :
                  AptNumber(codec) = Some(codecs[i].payload_type)})

\* "Ensure that the capabilities media codec has a RTX codec" (lines 380-392)
FindCapRtxCodec(cap_codecs, preferred_payload_type) ==
    MinOrZero({i \in DOMAIN cap_codecs :
                  /\ is_rtx(cap_codecs[i])
                  /\ AptNumber(cap_codecs[i]) = Some(preferred_payload_type)})

\* lines 394-410, with the capability RTX codec found
InsertRtx(codec, cap_codecs, acc, preferred_payload_type, rtx) ==
    IF rtx = 0
    THEN Matching(Some(MappingError("UnsupportedRTXCodec", "",
                                    Some(preferred_payload_type))),
                  acc.map)
    ELSE Matching(None, BTreeInsert(acc.map, codec, cap_codecs[rtx]))

\* lines 377-410, with the result of codec_to_cap_codec.get(): unwrap() panics
\* on None, the error "abort"
InsertAssociatedRtx(codec, cap_codecs, acc, cap_media_codec) ==
    IF cap_media_codec = None
    THEN Matching(Some(MappingError("abort", "", None)), acc.map)
    ELSE InsertRtx(codec, cap_codecs, acc,
                   Unwrap(cap_media_codec).preferred_payload_type,
                   FindCapRtxCodec(cap_codecs,
                                   Unwrap(cap_media_codec).preferred_payload_type))

\* lines 363-410, with the index of the associated media codec found
InsertAssociated(codec, codecs, cap_codecs, acc, associated) ==
    IF associated = 0
    THEN Matching(Some(MappingError("MissingMediaCodecForRTX", "",
                                    Some(codec.payload_type))),
                  acc.map)
    ELSE InsertAssociatedRtx(codec, cap_codecs, acc,
                             BTreeGet(acc.map, codecs[associated]))

\* "Match parameters RTX codecs to capabilities RTX codecs" (lines 356-411),
\* one iteration: [error, map]
MatchRtxCodec(codec, codecs, cap_codecs, acc) ==
    IF acc.error # None \/ ~is_rtx(codec) THEN acc
    ELSE InsertAssociated(codec, codecs, cap_codecs, acc,
                          FindAssociatedMediaCodec(codecs, codec))

\* the loop, which returns at the first error
RECURSIVE MatchRtxCodecs(_, _, _, _)
MatchRtxCodecs(codecs, cap_codecs, i, acc) ==
    IF i > Len(codecs) THEN acc
    ELSE MatchRtxCodecs(codecs, cap_codecs, i + 1,
                        MatchRtxCodec(codecs[i], codecs, cap_codecs, acc))

\* "Generate codecs mapping" (lines 413-419): one entry per entry of the map,
\* in the order of the map
MappingCodecs(map) ==
    [i \in 1..Len(map) |->
        [payload_type |-> map[i].key.payload_type,
         mapped_payload_type |-> map[i].value.preferred_payload_type]]

\* a variant of MappingEncodings that does not increment mapped_ssrc
MappingEncodingsSameSsrc(encodings, mapped_ssrc) ==
    [i \in 1..Len(encodings) |->
        [ssrc |-> encodings[i].ssrc,
         rid |-> encodings[i].rid,
         scalability_mode |-> encodings[i].scalability_mode,
         mapped_ssrc |-> mapped_ssrc]]

\* "Generate encodings mapping" (lines 421-433); mapped_ssrc is a u32 that
\* starts below 10^9 and is incremented once per encoding
MappingEncodings(encodings, mapped_ssrc) ==
    [i \in 1..Len(encodings) |->
        [ssrc |-> encodings[i].ssrc,
         rid |-> encodings[i].rid,
         scalability_mode |-> encodings[i].scalability_mode,
         mapped_ssrc |-> mapped_ssrc + (i - 1)]]

NoMapping == [codecs |-> <<>>, encodings |-> <<>>]

\* lines 413-435, with the map the two loops built
MappingOf(params, ssrc, matched) ==
    IF matched.error # None
    THEN [error |-> matched.error, rtp_mapping |-> NoMapping]
    ELSE [error |-> None,
          rtp_mapping |-> [codecs |-> MappingCodecs(matched.map),
                           encodings |-> MappingEncodings(params.encodings, ssrc)]]

\* [error, rtp_mapping]; the loop over the RTX codecs is not entered after an
\* error of the loop over the media codecs
get_producer_rtp_parameters_mapping(params, capabilities, ssrc) ==
    MappingOf(params, ssrc,
        MatchRtxCodecs(params.codecs, capabilities.codecs, 1,
            MatchMediaCodecs(params.codecs, capabilities.codecs, 1,
                             Matching(None, <<>>))))

----------------------------------------------------------------------------
(* get_consumable_rtp_parameters *)

Encoding(ssrc, rid, codec_payload_type, rtx, dtx, scalability_mode, max_bitrate) ==
    [ssrc |-> ssrc, rid |-> rid, codec_payload_type |-> codec_payload_type,
     rtx |-> rtx, dtx |-> dtx, scalability_mode |-> scalability_mode,
     max_bitrate |-> max_bitrate]

\* RtpParameters::default()
DefaultRtpParameters ==
    [mid |-> None, codecs |-> <<>>, header_extensions |-> <<>>,
     encodings |-> <<>>,
     rtcp |-> [cname |-> None, reduced_size |-> TRUE, mux |-> None]]

\* a variant of ConsumableCodec that keeps the parameters of the capability
ConsumableCodecOfCap(cap_codec, parameters) ==
    CodecParameters(cap_codec.kind, cap_codec.mime_type,
                    cap_codec.preferred_payload_type, cap_codec.clock_rate,
                    cap_codec.channels, cap_codec.parameters,
                    cap_codec.rtcp_feedback)

\* the consumable codec of a capability codec (lines 466-499, 520-549)
ConsumableCodec(cap_codec, parameters) ==
    CodecParameters(cap_codec.kind, cap_codec.mime_type,
                    cap_codec.preferred_payload_type, cap_codec.clock_rate,
                    cap_codec.channels, parameters, cap_codec.rtcp_feedback)

\* a variant of FindConsumableCapRtxCodec that takes the first RTX capability
\* codec, whatever its apt
FindFirstCapRtxCodec(cap_codecs, payload_type) ==
    MinOrZero({i \in DOMAIN cap_codecs : is_rtx(cap_codecs[i])})

\* the RTX capability codec whose apt, as u8, is the payload type (lines 502-515)
FindConsumableCapRtxCodec(cap_codecs, payload_type) ==
    MinOrZero({i \in DOMAIN cap_codecs :
                  /\ is_rtx(cap_codecs[i])
                  /\ AptNumber(cap_codecs[i]) # None
                  /\ Unwrap(AptNumber(cap_codecs[i])) % 256 = payload_type})

\* lines 517-552, with the index of the RTX capability codec found
PushWithRtx(out, consumable_codec, cap_codecs, r) ==
    IF r = 0 THEN Some(Append(Unwrap(out), consumable_codec))
    ELSE Some(Unwrap(out) \o <<consumable_codec,
                               ConsumableCodec(cap_codecs[r],
                                               cap_codecs[r].parameters)>>)

\* lines 459-552, with the index of the capability codec found: unwrap() panics
\* when there is none
PushConsumable(codec, cap_codecs, out, c) ==
    IF c = 0 THEN None
    ELSE PushWithRtx(out, ConsumableCodec(cap_codecs[c], codec.parameters),
                     cap_codecs,
                     FindConsumableCapRtxCodec(cap_codecs,
                         cap_codecs[c].preferred_payload_type))

\* lines 453-552, with the index of the mapping entry found: unwrap() panics
\* when there is none
PushMapped(codec, cap_codecs, mapping_codecs, out, e) ==
    IF e = 0 THEN None
    ELSE PushConsumable(codec, cap_codecs, out,
             MinOrZero({i \in DOMAIN cap_codecs :
                           cap_codecs[i].preferred_payload_type
                               = mapping_codecs[e].mapped_payload_type}))

\* the loop over params.codecs (lines 448-553), one iteration: Option<codecs>,
\* None when an unwrap() panics
ConsumableCodecsOf(codec, cap_codecs, mapping_codecs, out) ==
    IF out = None \/ is_rtx(codec) THEN out
    ELSE PushMapped(codec, cap_codecs, mapping_codecs, out,
             MinOrZero({i \in DOMAIN mapping_codecs :
                           mapping_codecs[i].payload_type = codec.payload_type}))

RECURSIVE ConsumableCodecs(_, _, _, _, _)
ConsumableCodecs(codecs, cap_codecs, mapping_codecs, i, out) ==
    IF i > Len(codecs) THEN out
    ELSE ConsumableCodecs(codecs, cap_codecs, mapping_codecs, i + 1,
             ConsumableCodecsOf(codecs[i], cap_codecs, mapping_codecs, out))

\* one capability header extension (lines 556-581)
ConsumableHeaderExtension(cap_ext, producer_kind) ==
    IF cap_ext.kind = None \/ Unwrap(cap_ext.kind) # producer_kind THEN <<>>
    ELSE IF cap_ext.direction \notin {"sendrecv", "sendonly"} THEN <<>>
    ELSE <<[uri |-> cap_ext.uri, id |-> cap_ext.preferred_id,
            encrypt |-> cap_ext.preferred_encrypt]>>

\* the loop over caps.header_extensions (lines 555-582)
RECURSIVE ConsumableHeaderExtensions(_, _)
ConsumableHeaderExtensions(cap_exts, producer_kind) ==
    IF cap_exts = <<>> THEN <<>>
    ELSE ConsumableHeaderExtension(Head(cap_exts), producer_kind)
             \o ConsumableHeaderExtensions(Tail(cap_exts), producer_kind)

Min(a, b) == IF a < b THEN a ELSE b

\* a variant of ConsumableEncodings that keeps the rid and the rtx of the
\* producer
ConsumableEncodingsKeepRid(encodings, mapping_encodings) ==
    [i \in 1..Min(Len(encodings), Len(mapping_encodings)) |->
        [encodings[i] EXCEPT !.codec_payload_type = None,
                             !.ssrc = Some(mapping_encodings[i].mapped_ssrc)]]

\* the zip of params.encodings with the mapped ssrcs (lines 584-600)
ConsumableEncodings(encodings, mapping_encodings) ==
    [i \in 1..Min(Len(encodings), Len(mapping_encodings)) |->
        [encodings[i] EXCEPT !.rid = None, !.rtx = None,
                             !.codec_payload_type = None,
                             !.ssrc = Some(mapping_encodings[i].mapped_ssrc)]]

\* a variant of ConsumableOf that keeps the rtcp of the producer
ConsumableOfProducerRtcp(producer_kind, params, capabilities, mapping, codecs) ==
    IF codecs = None THEN None
    ELSE Some([mid |-> None,
               codecs |-> Unwrap(codecs),
               header_extensions |->
                   ConsumableHeaderExtensions(capabilities.header_extensions,
                                              producer_kind),
               encodings |-> ConsumableEncodings(params.encodings,
                                                 mapping.encodings),
               rtcp |-> params.rtcp])

\* lines 555-608, with the codecs the loop built
ConsumableOf(producer_kind, params, capabilities, mapping, codecs) ==
    IF codecs = None THEN None
    ELSE Some([mid |-> None,
               codecs |-> Unwrap(codecs),
               header_extensions |->
                   ConsumableHeaderExtensions(capabilities.header_extensions,
                                              producer_kind),
               encodings |-> ConsumableEncodings(params.encodings,
                                                 mapping.encodings),
               rtcp |-> [cname |-> params.rtcp.cname,
                         reduced_size |-> TRUE,
                         mux |-> Some(TRUE)]])

\* Option<RtpParameters>, None when an unwrap() panics
get_consumable_rtp_parameters(producer_kind, params, capabilities, mapping) ==
    ConsumableOf(producer_kind, params, capabilities, mapping,
        ConsumableCodecs(params.codecs, capabilities.codecs, mapping.codecs,
                         1, Some(<<>>)))

----------------------------------------------------------------------------
(* can_consume *)

\* the codecs some capability codec strictly matches (lines 620-629)
RECURSIVE MatchingCodecs(_, _)
MatchingCodecs(codecs, cap_codecs) ==
    IF codecs = <<>> THEN <<>>
    ELSE (IF \E j \in DOMAIN cap_codecs :
                 Matches(cap_codecs[j], Head(codecs), TRUE).ok
          THEN <<Head(codecs)>> ELSE <<>>)
         \o MatchingCodecs(Tail(codecs), cap_codecs)

\* matching_codecs.get(0).map(|codec| !codec.is_rtx()).unwrap_or_default()
FirstIsMediaCodec(matching_codecs) ==
    matching_codecs # <<>> /\ ~is_rtx(matching_codecs[1])

\* can_consume(&consumable_params, &caps): [error, ok]
can_consume(params, capabilities) ==
    IF validate_rtp_capabilities(capabilities.codecs) # None
    THEN [error |-> validate_rtp_capabilities(capabilities.codecs), ok |-> FALSE]
    ELSE [error |-> None,
          ok |-> FirstIsMediaCodec(MatchingCodecs(params.codecs,
                                                  capabilities.codecs))]

----------------------------------------------------------------------------
(* get_consumer_rtp_parameters *)

\* ConsumerRtpParametersError: InvalidCapabilities(source) or
\* NoCompatibleMediaCodecs
ConsumerError(name, source) == [error |-> name, source |-> source]

\* lines 648-651: Option<ConsumerRtpParametersError>
InvalidCapabilities(invalid) ==
    IF invalid = None THEN None
    ELSE Some(ConsumerError("InvalidCapabilities", invalid))

\* lines 656-663, with the index of the capability codec found: the codec
\* with the rtcp_feedback of the capability codec, or nothing
MatchedConsumerCodec(codec, cap_codecs, j) ==
    IF j = 0 THEN <<>>
    ELSE <<[codec EXCEPT !.rtcp_feedback = cap_codecs[j].rtcp_feedback]>>

\* the loop over consumable_params.codecs (lines 655-664)
RECURSIVE MatchedConsumerCodecs(_, _)
MatchedConsumerCodecs(codecs, cap_codecs) ==
    IF codecs = <<>> THEN <<>>
    ELSE MatchedConsumerCodec(Head(codecs), cap_codecs,
             MinOrZero({j \in DOMAIN cap_codecs :
                           Matches(cap_codecs[j], Head(codecs), TRUE).ok}))
         \o MatchedConsumerCodecs(Tail(codecs), cap_codecs)

\* an RTX codec of the matched codecs has an associated media codec
\* (lines 670-679)
HasAssociatedMediaCodec(codecs, codec) ==
    \E i \in DOMAIN codecs : AptNumber(codec) = Some(codecs[i].payload_type)

\* rtx_supported after the loop of lines 667-685
RtxSupported(codecs) ==
    \E i \in DOMAIN codecs :
        is_rtx(codecs[i]) /\ HasAssociatedMediaCodec(codecs, codecs[i])

\* a variant of SanitizedCodecs that removes no codec
SanitizedCodecsKeepAll(rest, codecs) == rest

\* the matched codecs without the RTX codecs of remove_codecs (lines 666-688)
RECURSIVE SanitizedCodecs(_, _)
SanitizedCodecs(rest, codecs) ==
    IF rest = <<>> THEN <<>>
    ELSE (IF is_rtx(Head(rest)) /\ ~HasAssociatedMediaCodec(codecs, Head(rest))
          THEN <<>> ELSE <<Head(rest)>>)
         \o SanitizedCodecs(Tail(rest), codecs)

\* a variant of ConsumerHeaderExtensions that compares the uri alone
RECURSIVE ConsumerHeaderExtensionsByUri(_, _)
ConsumerHeaderExtensionsByUri(exts, cap_exts) ==
    IF exts = <<>> THEN <<>>
    ELSE (IF \E i \in DOMAIN cap_exts : cap_exts[i].uri = Head(exts).uri
          THEN <<Head(exts)>> ELSE <<>>)
         \o ConsumerHeaderExtensionsByUri(Tail(exts), cap_exts)

\* the filter of lines 695-704
RECURSIVE ConsumerHeaderExtensions(_, _)
ConsumerHeaderExtensions(exts, cap_exts) ==
    IF exts = <<>> THEN <<>>
    ELSE (IF \E i \in DOMAIN cap_exts :
                 /\ cap_exts[i].preferred_id = Head(exts).id
                 /\ cap_exts[i].uri = Head(exts).uri
          THEN <<Head(exts)>> ELSE <<>>)
         \o ConsumerHeaderExtensions(Tail(exts), cap_exts)

\* Vec::retain(|fb| fb is not in removed)
RECURSIVE RetainFeedback(_, _)
RetainFeedback(feedback, removed) ==
    IF feedback = <<>> THEN <<>>
    ELSE (IF Head(feedback) \in removed THEN <<>> ELSE <<Head(feedback)>>)
         \o RetainFeedback(Tail(feedback), removed)

\* the feedback the branch of lines 707-733 removes
RemovedFeedback(header_extensions) ==
    IF \E i \in DOMAIN header_extensions :
           header_extensions[i].uri = "TransportWideCCDraft01"
    THEN {"goog-remb"}
    ELSE IF \E i \in DOMAIN header_extensions :
                header_extensions[i].uri = "AbsSendTime"
    THEN {"transport-cc"}
    ELSE {"goog-remb", "transport-cc"}

\* "Reduce codecs' RTCP feedback" (lines 706-733)
ReducedCodecs(codecs, header_extensions) ==
    [i \in DOMAIN codecs |->
        [codecs[i] EXCEPT !.rtcp_feedback =
            RetainFeedback(@, RemovedFeedback(header_extensions))]]

\* temporal_layers of the scalability modes of the model, by
\* str::parse::<ScalabilityMode>(); a string outside the table does not parse
ScalabilityModes == [L1T3 |-> 3, L3T2 |-> 2, S2T1 |-> 1]

\* lines 758-763: the temporal layers of the parsed mode, those of
\* ScalabilityMode::default() when there is no mode or it does not parse
TemporalLayers(scalability_mode) ==
    IF scalability_mode = None THEN 0
    ELSE IF Unwrap(scalability_mode) \in DOMAIN ScalabilityModes
    THEN ScalabilityModes[Unwrap(scalability_mode)]
    ELSE 0

\* encodings.iter().find_map(|encoding| encoding.scalability_mode.clone())
ScalabilityModeAt(encodings, i) ==
    IF i = 0 THEN None ELSE encodings[i].scalability_mode

FindScalabilityMode(encodings) ==
    ScalabilityModeAt(encodings,
        MinOrZero({i \in DOMAIN encodings : encodings[i].scalability_mode # None}))

\* a variant of MangledScalabilityMode that also mangles the mode of a single
\* encoding
MangledSingleScalabilityMode(encodings, scalability_mode) ==
    IF Len(encodings) > 0
    THEN Some("S" \o ToString(Len(encodings)) \o "T"
                  \o ToString(TemporalLayers(scalability_mode)))
    ELSE scalability_mode

\* lines 753-765, with the scalability mode found
MangledScalabilityMode(encodings, scalability_mode) ==
    IF Len(encodings) > 1
    THEN Some("S" \o ToString(Len(encodings)) \o "T"
                  \o ToString(TemporalLayers(scalability_mode)))
    ELSE scalability_mode

\* Option<u32>::max: None is less than Some(_)
OptionMax(a, b) ==
    IF a = None THEN b
    ELSE IF b = None THEN a
    ELSE IF Unwrap(a) < Unwrap(b) THEN b ELSE a

\* encodings.iter().map(|encoding| encoding.max_bitrate).max().flatten()
RECURSIVE MaxBitrate(_)
MaxBitrate(encodings) ==
    IF encodings = <<>> THEN None
    ELSE OptionMax(Head(encodings).max_bitrate, MaxBitrate(Tail(encodings)))

\* a variant of ConsumerEncoding that always has an rtx
ConsumerEncodingWithRtx(encodings, rtx_supported, ssrc, rtx_ssrc) ==
    Encoding(Some(ssrc), None, None, Some([ssrc |-> rtx_ssrc]), None,
             MangledScalabilityMode(encodings, FindScalabilityMode(encodings)),
             MaxBitrate(encodings))

\* the single encoding of the consumer (lines 735-775)
ConsumerEncoding(encodings, rtx_supported, ssrc, rtx_ssrc) ==
    Encoding(Some(ssrc), None, None,
             IF rtx_supported THEN Some([ssrc |-> rtx_ssrc]) ELSE None,
             None,
             MangledScalabilityMode(encodings, FindScalabilityMode(encodings)),
             MaxBitrate(encodings))

ConsumerResult(error, params) == [error |-> error, consumer_params |-> params]

\* a variant of ConsumerOf that reduces the feedback by the header extensions
\* of the consumable parameters
ConsumerOfConsumable(params, codecs, header_extensions, rtx_supported, ssrc, rtx_ssrc) ==
    ConsumerResult(None,
        [mid |-> None,
         codecs |-> ReducedCodecs(codecs, params.header_extensions),
         header_extensions |-> header_extensions,
         encodings |-> <<ConsumerEncoding(params.encodings,
                                          rtx_supported, ssrc, rtx_ssrc)>>,
         rtcp |-> params.rtcp])

\* lines 695-783, with the codecs of the consumer and its header extensions
ConsumerOf(params, codecs, header_extensions, rtx_supported, ssrc, rtx_ssrc) ==
    ConsumerResult(None,
        [mid |-> None,
         codecs |-> ReducedCodecs(codecs, header_extensions),
         header_extensions |-> header_extensions,
         encodings |-> <<ConsumerEncoding(params.encodings,
                                          rtx_supported, ssrc, rtx_ssrc)>>,
         rtcp |-> params.rtcp])

\* a variant of ConsumerOfMatched that only fails when no codec is left
ConsumerOfLeft(params, capabilities, matched, codecs, ssrc, rtx_ssrc) ==
    IF codecs = <<>>
    THEN ConsumerResult(Some(ConsumerError("NoCompatibleMediaCodecs", None)),
                        DefaultRtpParameters)
    ELSE ConsumerOf(params, codecs,
                    ConsumerHeaderExtensions(params.header_extensions,
                                             capabilities.header_extensions),
                    RtxSupported(matched), ssrc, rtx_ssrc)

\* lines 665-783, with the codecs matched
ConsumerOfMatched(params, capabilities, matched, codecs, ssrc, rtx_ssrc) ==
    IF codecs = <<>> \/ is_rtx(codecs[1])
    THEN ConsumerResult(Some(ConsumerError("NoCompatibleMediaCodecs", None)),
                        DefaultRtpParameters)
    ELSE ConsumerOf(params, codecs,
                    ConsumerHeaderExtensions(params.header_extensions,
                                             capabilities.header_extensions),
                    RtxSupported(matched), ssrc, rtx_ssrc)

\* lines 653-783, with the capabilities validated
ConsumerOfValid(params, capabilities, matched, ssrc, rtx_ssrc) ==
    ConsumerOfMatched(params, capabilities, matched,
                      SanitizedCodecs(matched, matched), ssrc, rtx_ssrc)

\* [error, consumer_params]; ssrc and rtx_ssrc are the results of the calls
\* of generate_ssrc()
get_consumer_rtp_parameters(params, capabilities, ssrc, rtx_ssrc) ==
    IF validate_rtp_capabilities(capabilities.codecs) # None
    THEN ConsumerResult(InvalidCapabilities(validate_rtp_capabilities(capabilities.codecs)),
                        DefaultRtpParameters)
    ELSE ConsumerOfValid(params, capabilities,
                         MatchedConsumerCodecs(params.codecs, capabilities.codecs),
                         ssrc, rtx_ssrc)

----------------------------------------------------------------------------
(* get_pipe_consumer_rtp_parameters *)

\* the feedback a pipe consumer keeps (lines 809-812)
PipeFeedback(enable_rtx) ==
    IF enable_rtx THEN {"nack-pli", "ccm-fir", "nack"} ELSE {"nack-pli", "ccm-fir"}

\* Vec::retain(|fb| fb is in kept)
RECURSIVE RetainOnlyFeedback(_, _)
RetainOnlyFeedback(feedback, kept) ==
    IF feedback = <<>> THEN <<>>
    ELSE (IF Head(feedback) \in kept THEN <<Head(feedback)>> ELSE <<>>)
         \o RetainOnlyFeedback(Tail(feedback), kept)

\* a variant of PipeCodecs that keeps the RTX codecs without enable_rtx
RECURSIVE PipeCodecsWithRtx(_, _)
PipeCodecsWithRtx(codecs, enable_rtx) ==
    IF codecs = <<>> THEN <<>>
    ELSE <<[Head(codecs) EXCEPT !.rtcp_feedback =
                RetainOnlyFeedback(@, PipeFeedback(enable_rtx))]>>
         \o PipeCodecsWithRtx(Tail(codecs), enable_rtx)

\* the loop over consumable_params.codecs (lines 802-815)
RECURSIVE PipeCodecs(_, _)
PipeCodecs(codecs, enable_rtx) ==
    IF codecs = <<>> THEN <<>>
    ELSE (IF ~enable_rtx /\ is_rtx(Head(codecs)) THEN <<>>
          ELSE <<[Head(codecs) EXCEPT !.rtcp_feedback =
                      RetainOnlyFeedback(@, PipeFeedback(enable_rtx))]>>)
         \o PipeCodecs(Tail(codecs), enable_rtx)

\* the filter of lines 818-830
RECURSIVE PipeHeaderExtensions(_)
PipeHeaderExtensions(exts) ==
    IF exts = <<>> THEN <<>>
    ELSE (IF Head(exts).uri \in {"MID", "AbsSendTime", "TransportWideCCDraft01"}
          THEN <<>> ELSE <<Head(exts)>>)
         \o PipeHeaderExtensions(Tail(exts))

\* a variant of PipeEncodings that gives every encoding the same ssrc
PipeEncodingsSameSsrc(encodings, enable_rtx, ssrc, rtx_ssrc) ==
    [i \in DOMAIN encodings |->
        [encodings[i] EXCEPT
            !.ssrc = Some(ssrc),
            !.rtx = IF enable_rtx THEN Some([ssrc |-> rtx_ssrc + (i - 1)])
                    ELSE None]]

\* the zip of the encodings with generate_ssrc().. twice (lines 832-847)
PipeEncodings(encodings, enable_rtx, ssrc, rtx_ssrc) ==
    [i \in DOMAIN encodings |->
        [encodings[i] EXCEPT
            !.ssrc = Some(ssrc + (i - 1)),
            !.rtx = IF enable_rtx THEN Some([ssrc |-> rtx_ssrc + (i - 1)])
                    ELSE None]]

\* ssrc and rtx_ssrc are the results of the calls of generate_ssrc()
get_pipe_consumer_rtp_parameters(params, enable_rtx, ssrc, rtx_ssrc) ==
    [mid |-> None,
     codecs |-> PipeCodecs(params.codecs, enable_rtx),
     header_extensions |-> PipeHeaderExtensions(params.header_extensions),
     encodings |-> PipeEncodings(params.encodings, enable_rtx,
                                 ssrc, rtx_ssrc),
     rtcp |-> params.rtcp]

----------------------------------------------------------------------------
(* generate_ssrc *)

SsrcMin == 100000000
SsrcEnd == 999999999

\* fastrand::u32(100000000..999999999): the ends of the range and one value
\* inside it
generate_ssrc == {SsrcMin, 555555555, SsrcEnd - 1}

----------------------------------------------------------------------------
(* The state machine *)

\* no call of match_codecs
NoMatching == [codec_a |-> None, codec_b |-> None, strict |-> FALSE, result |-> None]

TypeOK ==
    /\ pc \in {"generate", "generate_failed", "router", "mapping_failed",
               "mapping_aborted", "mapped", "consumable", "consumable_aborted",
               "consumer", "consumer_failed", "pipe_consumer",
               "match", "matched"}
    /\ pipe_enable_rtx \in BOOLEAN
    /\ idx \in 1..(Len(media_codecs) + 1)

InitWith(MediaCodecLists, Kinds, Producers, Consumers) ==
    /\ media_codecs \in MediaCodecLists
    /\ kind \in Kinds
    /\ rtp_parameters \in Producers
    /\ consumer_caps \in Consumers
    /\ pc = "generate"
    /\ idx = 1
    /\ dynamic_payload_types = DYNAMIC_PAYLOAD_TYPES
    /\ caps = [codecs |-> <<>>,
               header_extensions |-> get_supported_rtp_capabilities.header_extensions,
               fec_mechanisms |-> <<>>]
    /\ router_error = validate_rtp_capabilities(get_supported_rtp_capabilities.codecs)
    /\ rtp_mapping = NoMapping
    /\ mapping_error = None
    /\ consumable_params = DefaultRtpParameters
    /\ consumer_params = DefaultRtpParameters
    /\ consumer_error = None
    /\ pipe_enable_rtx = FALSE
    /\ pipe_consumer_params = DefaultRtpParameters
    /\ can_consume_result = None
    /\ matching = NoMatching

\* the state after the router of one media codec is built, at a call of
\* get_consumable_rtp_parameters or of the functions of the consumers
InitAt(position, media_codec, Kinds, Producers, Mappings, Consumables, Consumers) ==
    /\ pc = position
    /\ media_codecs = <<media_codec>>
    /\ idx = 2
    /\ \E it \in {GenerateIteration(media_codec, <<>>, DYNAMIC_PAYLOAD_TYPES)} :
          /\ dynamic_payload_types = it.dynamic_payload_types
          /\ router_error = it.error
          /\ caps = [codecs |-> it.codecs,
                     header_extensions |->
                         get_supported_rtp_capabilities.header_extensions,
                     fec_mechanisms |-> <<>>]
    /\ kind \in Kinds
    /\ rtp_parameters \in Producers
    /\ rtp_mapping \in Mappings
    /\ mapping_error = None
    /\ consumable_params \in Consumables
    /\ consumer_caps \in Consumers
    /\ consumer_params = DefaultRtpParameters
    /\ consumer_error = None
    /\ pipe_enable_rtx = FALSE
    /\ pipe_consumer_params = DefaultRtpParameters
    /\ can_consume_result = None
    /\ matching = NoMatching

\* generate_router_rtp_capabilities: one iteration of the loop over media_codecs
GenerateStep ==
    /\ pc = "generate"
    /\ router_error = None
    /\ idx <= Len(media_codecs)
    /\ \E it \in {GenerateIteration(media_codecs[idx], caps.codecs,
                                    dynamic_payload_types)} :
          /\ router_error' = it.error
          /\ pc' = IF it.error # None THEN "generate_failed" ELSE pc
          /\ idx' = IF it.error # None THEN idx ELSE idx + 1
          /\ caps' = [caps EXCEPT !.codecs = it.codecs]
          /\ dynamic_payload_types' = it.dynamic_payload_types
    /\ UNCHANGED <<media_codecs, kind, rtp_parameters, rtp_mapping,
                   mapping_error, consumable_params, consumer_vars,
                   matching>>

\* generate_router_rtp_capabilities: Ok(caps)
GenerateReturn ==
    /\ pc = "generate"
    /\ router_error = None
    /\ idx > Len(media_codecs)
    /\ pc' = "router"
    /\ UNCHANGED <<media_codecs, idx, dynamic_payload_types, caps, router_error,
                   kind, rtp_parameters, rtp_mapping, mapping_error,
                   consumable_params, consumer_vars, matching>>

\* get_producer_rtp_parameters_mapping(&rtp_parameters, &caps)
GetProducerRtpParametersMapping ==
    /\ pc = "router"
    /\ \E ssrc \in generate_ssrc :
         \E r \in {get_producer_rtp_parameters_mapping(rtp_parameters, caps, ssrc)} :
             /\ mapping_error' = r.error
             /\ rtp_mapping' = r.rtp_mapping
             /\ pc' = IF r.error = None THEN "mapped"
                      ELSE IF Unwrap(r.error).error = "abort" THEN "mapping_aborted"
                      ELSE "mapping_failed"
    /\ UNCHANGED <<media_codecs, idx, dynamic_payload_types, caps, router_error,
                   kind, rtp_parameters, consumable_params, consumer_vars,
                   matching>>

\* get_consumable_rtp_parameters(kind, &rtp_parameters, &caps, &rtp_mapping)
GetConsumableRtpParameters ==
    /\ pc = "mapped"
    /\ \E r \in {get_consumable_rtp_parameters(kind, rtp_parameters, caps,
                                               rtp_mapping)} :
          /\ pc' = IF r = None THEN "consumable_aborted" ELSE "consumable"
          /\ consumable_params' = IF r = None THEN consumable_params ELSE Unwrap(r)
    /\ UNCHANGED <<media_codecs, idx, dynamic_payload_types, caps, router_error,
                   kind, rtp_parameters, rtp_mapping, mapping_error,
                   consumer_vars, matching>>

\* get_consumer_rtp_parameters(&consumable_params, consumer_caps)
GetConsumerRtpParameters ==
    /\ pc = "consumable"
    /\ \E ssrc \in generate_ssrc, rtx_ssrc \in generate_ssrc :
         \E r \in {get_consumer_rtp_parameters(consumable_params, consumer_caps,
                                               ssrc, rtx_ssrc)} :
             /\ consumer_error' = r.error
             /\ consumer_params' = r.consumer_params
             /\ pc' = IF r.error = None THEN "consumer" ELSE "consumer_failed"
    /\ UNCHANGED <<media_codecs, idx, dynamic_payload_types, caps, router_error,
                   kind, rtp_parameters, rtp_mapping, mapping_error,
                   consumable_params, consumer_caps, pipe_enable_rtx,
                   pipe_consumer_params, matching, can_consume_result>>

\* get_pipe_consumer_rtp_parameters(&consumable_params, enable_rtx)
GetPipeConsumerRtpParameters ==
    /\ pc = "consumable"
    /\ \E rtx \in BOOLEAN, ssrc \in generate_ssrc, rtx_ssrc \in generate_ssrc :
          /\ pipe_enable_rtx' = rtx
          /\ pipe_consumer_params'
                 = get_pipe_consumer_rtp_parameters(consumable_params, rtx,
                                                    ssrc, rtx_ssrc)
    /\ pc' = "pipe_consumer"
    /\ UNCHANGED <<media_codecs, idx, dynamic_payload_types, caps, router_error,
                   kind, rtp_parameters, rtp_mapping, mapping_error,
                   consumable_params, consumer_caps, consumer_params,
                   consumer_error, matching, can_consume_result>>

\* the state at a call of match_codecs(codec_a, codec_b, strict)
InitMatching(Codecs) ==
    /\ pc = "match"
    /\ matching \in {[codec_a |-> Some(a), codec_b |-> Some(b), strict |-> strict,
                       result |-> None] :
                         a \in Codecs, b \in Codecs, strict \in BOOLEAN}
    /\ media_codecs = <<>>
    /\ idx = 1
    /\ dynamic_payload_types = DYNAMIC_PAYLOAD_TYPES
    /\ caps = [codecs |-> <<>>,
               header_extensions |-> get_supported_rtp_capabilities.header_extensions,
               fec_mechanisms |-> <<>>]
    /\ router_error = None
    /\ kind = "video"
    /\ rtp_parameters = DefaultRtpParameters
    /\ rtp_mapping = NoMapping
    /\ mapping_error = None
    /\ consumable_params = DefaultRtpParameters
    /\ consumer_caps = [codecs |-> <<>>, header_extensions |-> <<>>,
                        fec_mechanisms |-> <<>>]
    /\ consumer_params = DefaultRtpParameters
    /\ consumer_error = None
    /\ pipe_enable_rtx = FALSE
    /\ pipe_consumer_params = DefaultRtpParameters
    /\ can_consume_result = None

\* match_codecs(codec_a, codec_b, strict)
MatchCodecs ==
    /\ pc = "match"
    /\ pc' = "matched"
    /\ matching' = [matching EXCEPT !.result =
                        Some(match_codecs(Unwrap(matching.codec_a),
                                          Unwrap(matching.codec_b),
                                          matching.strict))]
    /\ UNCHANGED <<media_codecs, idx, dynamic_payload_types, caps, router_error,
                   kind, rtp_parameters, rtp_mapping, mapping_error,
                   consumable_params, consumer_vars>>

\* can_consume(&consumable_params, &caps), called before the consumer is
\* created
CanConsume ==
    /\ pc = "consumable"
    /\ can_consume_result = None
    /\ can_consume_result' = Some(can_consume(consumable_params, consumer_caps))
    /\ UNCHANGED <<pc, media_codecs, idx, dynamic_payload_types, caps,
                   router_error, kind, rtp_parameters, rtp_mapping,
                   mapping_error, consumable_params, consumer_caps,
                   consumer_params, consumer_error, pipe_enable_rtx,
                   pipe_consumer_params, matching>>

Next ==
    \/ GenerateStep
    \/ GenerateReturn
    \/ GetProducerRtpParametersMapping
    \/ GetConsumableRtpParameters
    \/ GetConsumerRtpParameters
    \/ GetPipeConsumerRtpParameters

----------------------------------------------------------------------------
(* Inputs *)

H264Parameters(profile_level_id) ==
    ("level-asymmetry-allowed" :> Num(1))
        @@ ("profile-level-id" :> Str(profile_level_id))

OpusCap == AudioCapability("audio/opus", None, 48000, 2, NoParameters, <<>>)
OpusMonoCap == AudioCapability("audio/opus", None, 48000, 1, NoParameters, <<>>)
OpusPt0Cap == AudioCapability("audio/opus", Some(0), 48000, 2, NoParameters, <<>>)
PcmuCap == AudioCapability("audio/PCMU", None, 8000, 1, NoParameters, <<>>)
Vp8Cap == VideoCapability("video/VP8", None, 90000, NoParameters, <<>>)
Vp8Pt101Cap == VideoCapability("video/VP8", Some(101), 90000, NoParameters, <<>>)
Vp8Pt99Cap == VideoCapability("video/VP8", Some(99), 90000, NoParameters, <<>>)
Vp8Pt125Cap == VideoCapability("video/VP8", Some(125), 90000, NoParameters, <<>>)
Vp8Pt200Cap == VideoCapability("video/VP8", Some(200), 90000, NoParameters, <<>>)
Vp8AptStringCap ==
    VideoCapability("video/VP8", None, 90000, "apt" :> Str("x"), <<>>)
Vp9Cap == VideoCapability("video/VP9", None, 90000, "profile-id" :> Num(2), <<>>)
H264Cap ==
    VideoCapability("video/H264", None, 90000,
                    H264Parameters("42e01f") @@ ("foo" :> Str("bar")), <<"nack">>)
H264MainCap ==
    VideoCapability("video/H264", None, 90000,
                    H264Parameters("4d0032") @@ ("packetization-mode" :> Num(1)),
                    <<>>)
H264Mode5Cap ==
    VideoCapability("video/H264", None, 90000, "packetization-mode" :> Num(5), <<>>)
RtxCap == VideoCapability("video/rtx", None, 90000, "apt" :> Num(100), <<>>)

Vp8Pt100Cap == VideoCapability("video/VP8", Some(100), 90000, NoParameters, <<>>)
H264AsymmetryCap ==
    VideoCapability("video/H264", None, 90000,
                    ("level-asymmetry-allowed" :> Num(0)) @@ ("foo" :> Str("bar")),
                    <<"nack">>)

\* the media codecs of the test of the finalizer, and lists whose codecs
\* prefer a payload type the pool hands out or a parameter the supported
\* table has
TestMediaCodecs == <<OpusCap, Vp8Pt125Cap, H264Cap>>
FinalizerMediaCodecs ==
    {TestMediaCodecs,
     <<OpusCap, Vp8Pt100Cap>>,
     <<Vp8Pt100Cap, OpusCap>>,
     <<H264AsymmetryCap, PcmuCap>>}

MediaCodecSet ==
    {OpusCap, OpusMonoCap, OpusPt0Cap, PcmuCap, Vp8Cap, Vp8Pt101Cap, Vp8Pt200Cap,
     Vp8AptStringCap, Vp9Cap, H264Cap, H264MainCap, H264Mode5Cap, RtxCap}

MaxMediaCodecs == 3

\* the media codecs of the routers the producers are mapped on
RouterMediaCodecs ==
    {<<OpusCap, Vp8Cap, H264Cap, H264MainCap>>,
     <<Vp8Cap, Vp8Pt125Cap>>,
     <<OpusCap>>}

AudioParameters(mime, pt, clock, channels, parameters) ==
    CodecParameters("audio", mime, pt, clock, Some(channels), parameters, <<>>)

VideoParameters(mime, pt, parameters, feedback) ==
    CodecParameters("video", mime, pt, 90000, None, parameters, feedback)

ProducerCodecSet ==
    {AudioParameters("audio/opus", 111, 48000, 2, NoParameters),
     VideoParameters("video/VP8", 96, NoParameters, <<"nack", "unsupported">>),
     VideoParameters("video/VP8", 97, "foo" :> Num(1), <<>>),
     VideoParameters("video/VP9", 98, NoParameters, <<>>),
     VideoParameters("video/H264", 96, "profile-level-id" :> Str("42e034"), <<>>),
     VideoParameters("video/H264", 98,
                     ("packetization-mode" :> Num(1))
                         @@ ("profile-level-id" :> Str("4d0032")), <<"nack">>),
     VideoParameters("video/rtx", 97, "apt" :> Num(96), <<>>),
     VideoParameters("video/rtx", 99, "apt" :> Num(98), <<>>),
     VideoParameters("video/rtx", 99, "apt" :> Num(99), <<>>),
     VideoParameters("video/rtx", 95, NoParameters, <<>>),
     VideoParameters("video/rtx", 94, "apt" :> Str("96"), <<>>)}

MaxProducerCodecs == 3

EncodingSet ==
    {Encoding(Some(11111111), None, None, Some([ssrc |-> 11111112]), None,
              Some("L1T3"), Some(111111)),
     Encoding(Some(21111111), None, Some(96), None, Some(TRUE), None,
              Some(222222)),
     Encoding(None, Some("high"), None, None, None, Some("L1T3"), None),
     Encoding(Some(31111111), None, None, None, None, Some("none"), None)}

MaxEncodings == 2

Rtcp(cname, reduced_size, mux) ==
    [cname |-> cname, reduced_size |-> reduced_size, mux |-> mux]

Producer(codecs, encodings, rtcp) ==
    [mid |-> None, codecs |-> codecs, header_extensions |-> <<>>,
     encodings |-> encodings, rtcp |-> rtcp]

\* the producer of the test of the pipeline, with one encoding
TestProducer ==
    Producer(<<VideoParameters("video/VP8", 96, NoParameters, <<"nack">>),
               VideoParameters("video/rtx", 97, "apt" :> Num(96), <<>>)>>,
             <<Encoding(Some(11111111), None, None, None, None, None, None)>>,
             Rtcp(Some("qwerty1234"), TRUE, None))

\* the producers with every list of codecs and one encoding
CodecProducers ==
    {Producer(codecs, TestProducer.encodings, TestProducer.rtcp) :
        codecs \in SeqsUpTo(ProducerCodecSet, MaxProducerCodecs)}

\* the producers with every list of encodings and the codecs of TestProducer
EncodingProducers ==
    {Producer(TestProducer.codecs, encodings, rtcp) :
        encodings \in SeqsUpTo(EncodingSet, MaxEncodings),
        rtcp \in {Rtcp(Some("qwerty1234"), TRUE, None),
                  Rtcp(None, FALSE, Some(FALSE))}}

\* the lists that exhaust the pool of dynamic payload types: at most one codec
\* with a payload type of its own, copies of Opus, copies of VP8, then at most
\* one more codec
MaxCopies == 34
TestCopies == 100

PoolMediaCodecs ==
    {first \o Rep(OpusCap, a) \o Rep(Vp8Cap, v) \o last :
        first \in {<<>>, <<Vp8Pt125Cap>>, <<PcmuCap>>},
        a \in (0..MaxCopies) \cup {TestCopies},
        v \in {0, 1, 2, 16, 17},
        last \in {<<>>, <<OpusCap>>, <<Vp8Pt99Cap>>, <<PcmuCap>>}}

\* the producer of the test of the consumer, with three encodings
SimulcastProducer ==
    Producer(TestProducer.codecs,
             <<Encoding(Some(11111111), None, None, Some([ssrc |-> 11111112]),
                        None, Some("L1T3"), Some(111111)),
               Encoding(Some(21111111), None, None, Some([ssrc |-> 21111112]),
                        None, Some("L1T3"), Some(222222)),
               Encoding(None, Some("high"), None, None, None, Some("L1T3"),
                        Some(333333))>>,
             TestProducer.rtcp)

\* codecs of the capabilities of a consumer
RemoteVp8 ==
    VideoCapability("video/VP8", Some(101), 90000, NoParameters,
                    <<"nack", "goog-remb", "transport-cc">>)
RemoteH264 ==
    VideoCapability("video/H264", Some(103), 90000,
                    ("packetization-mode" :> Num(1))
                        @@ ("profile-level-id" :> Str("4d0032")),
                    <<"nack", "nack-pli", "unsupported">>)
RemoteRtx == VideoCapability("video/rtx", Some(102), 90000, "apt" :> Num(101), <<>>)

RemoteCapabilities(codecs, header_extensions) ==
    [codecs |-> codecs, header_extensions |-> header_extensions,
     fec_mechanisms |-> <<>>]

\* a consumer that supports what the router supports
TestConsumer ==
    RemoteCapabilities(<<RemoteVp8, RemoteRtx>>, SupportedHeaderExtensions)

\* a producer of H.264 and VP8, each with its RTX codec
TwoCodecProducer ==
    Producer(<<VideoParameters("video/H264", 98,
                               ("packetization-mode" :> Num(1))
                                   @@ ("profile-level-id" :> Str("4d0032")),
                               <<"nack">>),
               VideoParameters("video/rtx", 99, "apt" :> Num(98), <<>>),
               VideoParameters("video/VP8", 96, NoParameters, <<"nack">>),
               VideoParameters("video/rtx", 97, "apt" :> Num(96), <<>>)>>,
             TestProducer.encodings, TestProducer.rtcp)

\* consumers with and without the media codec and the RTX codec, with valid
\* and invalid codecs
ConsumerCodecLists ==
    {<<RemoteVp8, RemoteRtx>>, <<RemoteVp8>>, <<RemoteRtx>>, <<RemoteH264>>,
     <<RemoteVp8, Vp8AptStringCap>>, <<RemoteH264, RemoteRtx>>, <<>>}

\* consumers with and without the header extensions of the bandwidth
\* estimation, and with one under another id
ConsumerHeaderExtensionLists ==
    {SupportedHeaderExtensions,
     <<HeaderExtension(Some("video"), "MID", 1, "sendrecv"),
       HeaderExtension(Some("video"), "AbsSendTime", 4, "sendrecv")>>,
     <<HeaderExtension(Some("video"), "TransportWideCCDraft01", 7, "sendrecv"),
       HeaderExtension(Some("video"), "TimeOffset", 12, "sendrecv")>>,
     <<>>}

ConsumerCapabilities ==
    {RemoteCapabilities(codecs, SupportedHeaderExtensions) :
         codecs \in ConsumerCodecLists}
    \cup {RemoteCapabilities(<<RemoteVp8, RemoteRtx>>, header_extensions) :
         header_extensions \in ConsumerHeaderExtensionLists}

\* an entry of RtpMapping.codecs
MappingCodec(payload_type, mapped_payload_type) ==
    [payload_type |-> payload_type, mapped_payload_type |-> mapped_payload_type]

\* mappings of TestProducer on the router of VP8 (payload types 100 and 101):
\* the one of the mapping builder, mappings without the entry of the media
\* codec, and one to a payload type that no capability codec has
MappingSet ==
    {[codecs |-> codecs,
      encodings |-> MappingEncodings(TestProducer.encodings, SsrcMin)] :
        codecs \in {<<MappingCodec(96, 100), MappingCodec(97, 101)>>,
                    <<MappingCodec(97, 101)>>,
                    <<>>,
                    <<MappingCodec(96, 110), MappingCodec(97, 101)>>}}

\* consumable parameters with the given codecs
ConsumableWith(codecs) ==
    [mid |-> None,
     codecs |-> codecs,
     header_extensions |->
         ConsumableHeaderExtensions(SupportedHeaderExtensions, "video"),
     encodings |-> <<Encoding(Some(SsrcMin), None, None, None, None, None, None)>>,
     rtcp |-> Rtcp(Some("qwerty1234"), TRUE, Some(TRUE))]

\* consumable parameters whose RTX codecs follow their media codec, precede
\* it, name themselves or name no codec
ConsumableSet ==
    {ConsumableWith(codecs) :
        codecs \in {<<VideoParameters("video/VP8", 100, NoParameters, VideoFeedback),
                      VideoParameters("video/rtx", 101, "apt" :> Num(100), <<>>)>>,
                    <<VideoParameters("video/rtx", 101, "apt" :> Num(100), <<>>),
                      VideoParameters("video/VP8", 100, NoParameters, VideoFeedback)>>,
                    <<VideoParameters("video/rtx", 101, "apt" :> Num(101), <<>>)>>,
                    <<VideoParameters("video/rtx", 101, "apt" :> Num(100), <<>>)>>,
                    <<VideoParameters("video/VP8", 100, NoParameters, VideoFeedback),
                      VideoParameters("video/rtx", 103, "apt" :> Num(102), <<>>)>>,
                    <<VideoParameters("video/H264", 100, NoParameters, VideoFeedback),
                      VideoParameters("video/VP8", 102, NoParameters, VideoFeedback)>>,
                    <<>>}}

\* a CodecToMatch
Descriptor(mime, clock, channels, parameters) ==
    [channels |-> channels, clock_rate |-> clock, mime_type |-> mime,
     parameters |-> parameters]

\* codec descriptors that differ in mime type, clock rate, channels,
\* packetization-mode, profile-level-id, level-asymmetry-allowed and
\* profile-id, each also without the parameter
DescriptorSet ==
    {Descriptor("audio/opus", 48000, Some(2), NoParameters),
     Descriptor("audio/opus", 48000, Some(1), NoParameters),
     Descriptor("audio/opus", 44100, Some(2), NoParameters),
     Descriptor("audio/PCMU", 8000, Some(1), NoParameters),
     Descriptor("video/VP8", 90000, None, NoParameters),
     Descriptor("video/VP8", 45000, None, NoParameters),
     Descriptor("video/VP9", 90000, None, NoParameters),
     Descriptor("video/VP9", 90000, None, "profile-id" :> Num(0)),
     Descriptor("video/VP9", 90000, None, "profile-id" :> Num(2)),
     Descriptor("video/rtx", 90000, None, "apt" :> Num(100)),
     Descriptor("video/rtx", 90000, None, "apt" :> Num(101)),
     Descriptor("video/H264", 90000, None, NoParameters),
     Descriptor("video/H264", 90000, None, "packetization-mode" :> Num(0)),
     Descriptor("video/H264", 90000, None, "packetization-mode" :> Num(1)),
     Descriptor("video/H264", 90000, None, "profile-level-id" :> Str("42e01f")),
     Descriptor("video/H264", 90000, None, H264Parameters("42e034")),
     Descriptor("video/H264", 90000, None, H264Parameters("42e01f")),
     Descriptor("video/H264", 90000, None, "profile-level-id" :> Str("4d0032")),
     Descriptor("video/H264", 90000, None, H264Parameters("4d0032")),
     Descriptor("video/H264", 90000, None,
                H264Parameters("4d0032") @@ ("packetization-mode" :> Num(1))),
     Descriptor("video/H264", 90000, None, "profile-level-id" :> Num(1)),
     Descriptor("video/H264", 90000, None, "profile-level-id" :> Str("none"))}

----------------------------------------------------------------------------
(* Specifications *)

\* every list of media codecs, one producer
Init ==
    InitWith(SeqsUpTo(MediaCodecSet, MaxMediaCodecs) \cup FinalizerMediaCodecs,
             {"video"}, {TestProducer}, {TestConsumer})
Spec == Init /\ [][Next]_vars

\* the lists of media codecs that exhaust the pool
InitPool ==
    InitWith(PoolMediaCodecs \cup FinalizerMediaCodecs,
             {"video"}, {TestProducer}, {TestConsumer})
SpecPool == InitPool /\ [][Next]_vars

\* every list of producer codecs on a few routers
InitProducer == InitWith(RouterMediaCodecs, {"video"}, CodecProducers, {TestConsumer})
SpecProducer == InitProducer /\ [][Next]_vars

\* every list of producer encodings on a few routers
InitEncodings ==
    InitWith(RouterMediaCodecs, {"audio", "video"}, EncodingProducers,
             {TestConsumer})
SpecEncodings == InitEncodings /\ [][Next]_vars

\* every list of producer encodings and a few consumers on a few routers
InitConsumer ==
    InitWith(RouterMediaCodecs, {"audio", "video"},
             EncodingProducers \cup {SimulcastProducer, TwoCodecProducer},
             ConsumerCapabilities)
SpecConsumer == InitConsumer /\ [][Next]_vars

\* the pipeline, and get_consumable_rtp_parameters called with a mapping of
\* MappingSet
InitMapping ==
    \/ InitWith(RouterMediaCodecs, {"video"}, {TestProducer}, {TestConsumer})
    \/ InitAt("mapped", Vp8Cap, {"audio", "video"}, {TestProducer}, MappingSet,
              {DefaultRtpParameters}, {TestConsumer})
SpecMapping == InitMapping /\ [][Next]_vars

\* the pipeline, and the functions of the consumers called with consumable
\* parameters of ConsumableSet
InitConsumable ==
    \/ InitWith(RouterMediaCodecs, {"video"}, {TestProducer},
                ConsumerCapabilities)
    \/ InitAt("consumable", Vp8Cap, {"video"}, {TestProducer}, {NoMapping},
              ConsumableSet, ConsumerCapabilities)
SpecConsumable == InitConsumable /\ [][Next]_vars

\* match_codecs called with every pair of descriptors of DescriptorSet
\* the pipeline with can_consume called on the consumable parameters and the
\* capabilities of the consumer, for producers of one and of two media codecs
InitCanConsume ==
    InitWith(RouterMediaCodecs, {"video"}, {TestProducer, TwoCodecProducer},
             ConsumerCapabilities)
NextCanConsume == Next \/ CanConsume
SpecCanConsume == InitCanConsume /\ [][NextCanConsume]_vars

NextMatching == MatchCodecs
SpecMatching == InitMatching(DescriptorSet) /\ [][NextMatching]_vars

----------------------------------------------------------------------------
(* Properties of generate_router_rtp_capabilities *)

Range(s) == {s[i] : i \in DOMAIN s}

\* generate_router_rtp_capabilities returned Ok(caps)
Succeeded == pc \notin {"generate", "generate_failed"}

RouterError(name) ==
    router_error # None /\ Unwrap(router_error).error = name

\* C1: when the finalizer succeeds, the preferred payload types of the codecs
\* of the result, media codecs and RTX companions together, are pairwise
\* distinct.
C1_DistinctPayloadTypes ==
    Succeeded =>
        \A i, j \in DOMAIN caps.codecs :
            i # j => caps.codecs[i].preferred_payload_type
                         # caps.codecs[j].preferred_payload_type

\* a result with a payload type fixed by the supported table (PCMU, 0), an
\* adopted preferred payload type (101) and two allocated ones
C1_Witness ==
    /\ pc = "router"
    /\ media_codecs = <<PcmuCap, Vp8Pt101Cap, OpusCap>>
    /\ [i \in DOMAIN caps.codecs |-> caps.codecs[i].preferred_payload_type]
           = <<0, 101, 100, 102>>

\* C2: when the finalizer succeeds, every video media codec is immediately
\* followed by an RTX codec with its clock rate, no rtcp_feedback and the
\* parameters {apt: its preferred payload type}; no audio codec is followed by
\* an RTX codec; every RTX codec has the single parameter apt, which is the
\* preferred payload type of a non-RTX codec of the list.
C2_RtxCompanions ==
    Succeeded =>
        \A i \in DOMAIN caps.codecs :
            /\ (caps.codecs[i].kind = "video" /\ ~is_rtx(caps.codecs[i])) =>
                   /\ i < Len(caps.codecs)
                   /\ is_rtx(caps.codecs[i + 1])
                   /\ caps.codecs[i + 1].clock_rate = caps.codecs[i].clock_rate
                   /\ caps.codecs[i + 1].rtcp_feedback = <<>>
                   /\ caps.codecs[i + 1].parameters
                          = ("apt" :> Num(caps.codecs[i].preferred_payload_type))
            /\ caps.codecs[i].kind = "audio" =>
                   (i = Len(caps.codecs) \/ ~is_rtx(caps.codecs[i + 1]))
            /\ is_rtx(caps.codecs[i]) =>
                   /\ DOMAIN caps.codecs[i].parameters = {"apt"}
                   /\ \E j \in DOMAIN caps.codecs :
                          /\ ~is_rtx(caps.codecs[j])
                          /\ caps.codecs[i].parameters["apt"]
                                 = Num(caps.codecs[j].preferred_payload_type)

\* a result with an audio codec between two video codecs and their companions
C2_Witness ==
    /\ pc = "router"
    /\ [i \in DOMAIN caps.codecs |-> caps.codecs[i].mime_type]
           = <<"video/H264", "video/rtx", "audio/opus", "video/VP8", "video/rtx">>

\* C3: when the finalizer succeeds, every preferred payload type of the result
\* lies in 0..127, also one adopted from a media codec.
C3_PayloadTypesInRange ==
    Succeeded =>
        \A i \in DOMAIN caps.codecs :
            caps.codecs[i].preferred_payload_type \in 0..127

\* the finalizer succeeded on a media codec whose preferred payload type is 200
C3_Witness ==
    /\ pc = "router"
    /\ media_codecs = <<Vp8Pt200Cap>>
    /\ caps.codecs[1].preferred_payload_type = 200

\* the media codec the next iteration of the finalizer processes
IsProcessing == pc = "generate" /\ idx <= Len(media_codecs)

\* the dynamic payload types no emitted codec has
FreePayloadTypes ==
    Range(DYNAMIC_PAYLOAD_TYPES)
        \ {caps.codecs[i].preferred_payload_type : i \in DOMAIN caps.codecs}

\* the codec is valid and supported, it has no preferred payload type and the
\* supported table fixes none for it
NeedsDynamicPayloadType(media_codec) ==
    /\ media_codec.preferred_payload_type = None
    /\ SupportedCodecs[FindSupportedCodec(media_codec)].preferred_payload_type = None

\* the payload type of a codec that needs no dynamic one
FixedPayloadType(media_codec) ==
    IF media_codec.preferred_payload_type # None
    THEN Unwrap(media_codec.preferred_payload_type)
    ELSE Unwrap(SupportedCodecs[FindSupportedCodec(media_codec)].preferred_payload_type)

\* the iteration on media_codec reaches an allocation from the pool that
\* finds the pool empty: for the codec itself, or for the RTX companion of a
\* video codec after the codec has its own payload type
AllocatesFromEmptyPool(media_codec) ==
    /\ validate_rtp_codec_capability(media_codec) = None
    /\ FindSupportedCodec(media_codec) # 0
    /\ IF NeedsDynamicPayloadType(media_codec)
       THEN \/ FreePayloadTypes = {}
            \/ media_codec.kind = "video" /\ Cardinality(FreePayloadTypes) = 1
       ELSE /\ ~IsDuplicated(caps.codecs, FixedPayloadType(media_codec))
            /\ media_codec.kind = "video"
            /\ FreePayloadTypes \ {FixedPayloadType(media_codec)} = {}

\* C4: an iteration of the finalizer fails with CannotAllocate exactly when it
\* needs a dynamic payload type, for the media codec or for the RTX companion
\* of a video codec, and no dynamic payload type is free; a list of Opus
\* codecs succeeds when it has at most 32 codecs and fails with CannotAllocate
\* at the 33rd otherwise.
C4_CannotAllocate ==
    [][/\ IsProcessing =>
             ((router_error' = Some(CapabilitiesError("CannotAllocate", "", None, "")))
                  <=> AllocatesFromEmptyPool(media_codecs[idx]))
       /\ (\A i \in DOMAIN media_codecs : media_codecs[i] = OpusCap) =>
             /\ pc' = "router" => Len(media_codecs) <= 32
             /\ pc' = "generate_failed" =>
                    /\ Len(media_codecs) >= 33
                    /\ idx' = 33
                    /\ router_error'
                           = Some(CapabilitiesError("CannotAllocate", "", None, ""))
      ]_vars

\* a video codec took the last dynamic payload type, after 31 audio codecs,
\* and the finalizer failed on its RTX companion
C4_Witness ==
    /\ pc = "generate_failed"
    /\ RouterError("CannotAllocate")
    /\ media_codecs[idx] = Vp8Cap
    /\ Len(caps.codecs) = 31
    /\ dynamic_payload_types = <<>>

\* the codec and the supported codec have the same mime type, channels and
\* clock rate and, for H.264, the same packetization-mode, 0 when absent
NonStrictMatch(media_codec, supported_codec) ==
    /\ media_codec.mime_type = supported_codec.mime_type
    /\ media_codec.channels = supported_codec.channels
    /\ media_codec.clock_rate = supported_codec.clock_rate
    /\ media_codec.mime_type = "video/H264" =>
           (IF "packetization-mode" \in DOMAIN media_codec.parameters
            THEN media_codec.parameters["packetization-mode"] ELSE Num(0))
             = (IF "packetization-mode" \in DOMAIN supported_codec.parameters
                THEN supported_codec.parameters["packetization-mode"] ELSE Num(0))

\* C5: an iteration of the finalizer on a media codec that passes the apt
\* validation fails with UnsupportedCodec exactly when no supported codec has
\* its mime type, channels, clock rate and, for H.264, packetization-mode (0
\* when absent); the error carries the mime type of the media codec; the
\* H.264 profile-level-id and the VP9 profile-id play no part.
C5_UnsupportedCodec ==
    [][(IsProcessing /\ validate_rtp_codec_capability(media_codecs[idx]) = None) =>
          /\ (router_error' # None /\ Unwrap(router_error').error = "UnsupportedCodec")
                 <=> ~\E supported_codec \in Range(SupportedCodecs) :
                          NonStrictMatch(media_codecs[idx], supported_codec)
          /\ (router_error' # None /\ Unwrap(router_error').error = "UnsupportedCodec")
                 => router_error' = Some(CapabilitiesError("UnsupportedCodec",
                                             media_codecs[idx].mime_type, None, ""))
      ]_vars

\* the finalizer accepted H.264 with a profile-level-id and VP9 with a
\* profile-id the supported table does not have, and failed on H.264 with a
\* packetization-mode the table does not have
C5_Witness ==
    /\ pc = "generate_failed"
    /\ router_error = Some(CapabilitiesError("UnsupportedCodec", "video/H264", None, ""))
    /\ media_codecs = <<H264MainCap, Vp9Cap, H264Mode5Cap>>
    /\ idx = 3

----------------------------------------------------------------------------
(* Properties of get_producer_rtp_parameters_mapping *)

\* get_producer_rtp_parameters_mapping returned Ok(rtp_mapping)
Mapped == pc \in {"mapped", "consumable", "consumable_aborted"}

\* get_producer_rtp_parameters_mapping returned, or panicked
MappingReturned == Mapped \/ pc \in {"mapping_failed", "mapping_aborted"}

\* C6: when the mapping succeeds, mapping.codecs has as many entries as the
\* producer has codecs.
C6_OneEntryPerCodec ==
    Mapped => Len(rtp_mapping.codecs) = Len(rtp_parameters.codecs)

\* the mapping of a producer that lists the same codec twice has one entry
C6_Witness ==
    /\ pc = "mapped"
    /\ Len(rtp_parameters.codecs) = 2
    /\ rtp_parameters.codecs[1] = rtp_parameters.codecs[2]
    /\ Len(rtp_mapping.codecs) = 1

\* C7: when the mapping succeeds with one entry per codec, the entries of
\* mapping.codecs are in the order of the codecs of the producer.
C7_ProducerOrder ==
    (Mapped /\ Len(rtp_mapping.codecs) = Len(rtp_parameters.codecs)) =>
        \A i \in DOMAIN rtp_mapping.codecs :
            rtp_mapping.codecs[i].payload_type
                = rtp_parameters.codecs[i].payload_type

\* the mapping of a producer that lists an RTX codec before its media codec
\* has the media codec first
C7_Witness ==
    /\ pc = "mapped"
    /\ [i \in DOMAIN rtp_parameters.codecs |-> rtp_parameters.codecs[i].mime_type]
           = <<"video/rtx", "video/VP8">>
    /\ [i \in DOMAIN rtp_parameters.codecs |-> rtp_parameters.codecs[i].payload_type]
           = <<97, 96>>
    /\ [i \in DOMAIN rtp_mapping.codecs |-> rtp_mapping.codecs[i].payload_type]
           = <<96, 97>>

\* the capability codecs that strictly match the codec, by index
StrictMatches(codec) ==
    {j \in DOMAIN caps.codecs : Matches(codec, caps.codecs[j], TRUE).ok}

\* the media codecs of the producer that no capability codec matches, by index
UnmatchedMediaCodecs ==
    {i \in DOMAIN rtp_parameters.codecs :
        /\ ~is_rtx(rtp_parameters.codecs[i])
        /\ StrictMatches(rtp_parameters.codecs[i]) = {}}

\* C8: if some media codec of the producer is matched by no capability codec,
\* the mapping fails with UnsupportedCodec carrying the mime type and the
\* payload type of the first such codec, whatever RTX codecs the producer
\* lists; otherwise no UnsupportedCodec is returned and, on success, every
\* media codec of the producer has a mapping entry whose mapped_payload_type
\* is the preferred payload type of the first capability codec that strictly
\* matches it.
C8_FirstStrictMatch ==
    MappingReturned =>
        IF UnmatchedMediaCodecs # {}
        THEN mapping_error
                 = Some(MappingError("UnsupportedCodec",
                        rtp_parameters.codecs[MinOrZero(UnmatchedMediaCodecs)].mime_type,
                        Some(rtp_parameters.codecs[MinOrZero(UnmatchedMediaCodecs)].payload_type)))
        ELSE /\ mapping_error # None =>
                    Unwrap(mapping_error).error # "UnsupportedCodec"
             /\ Mapped =>
                    \A i \in DOMAIN rtp_parameters.codecs :
                        ~is_rtx(rtp_parameters.codecs[i]) =>
                            \E e \in Range(rtp_mapping.codecs) :
                                /\ e.payload_type
                                       = rtp_parameters.codecs[i].payload_type
                                /\ e.mapped_payload_type
                                       = caps.codecs[MinOrZero(StrictMatches(
                                             rtp_parameters.codecs[i]))].preferred_payload_type

\* a producer with one media codec that two capability codecs match, mapped
\* to the first of them
C8_Witness ==
    /\ pc = "mapped"
    /\ Len(rtp_parameters.codecs) = 1
    /\ Cardinality(StrictMatches(rtp_parameters.codecs[1])) = 2
    /\ rtp_mapping.codecs[1].mapped_payload_type
           = caps.codecs[1].preferred_payload_type

\* C9: when the mapping succeeds, mapping.encodings has one entry per encoding
\* of the producer, in order, with its ssrc, rid and scalability_mode; the
\* mapped_ssrc of entry i is the mapped_ssrc of the first entry plus i, the
\* first one lies in [100000000, 999999999) and none exceeds 32 bits.
C9_MappedSsrc ==
    Mapped =>
        /\ Len(rtp_mapping.encodings) = Len(rtp_parameters.encodings)
        /\ \A i \in DOMAIN rtp_mapping.encodings :
              /\ rtp_mapping.encodings[i].ssrc = rtp_parameters.encodings[i].ssrc
              /\ rtp_mapping.encodings[i].rid = rtp_parameters.encodings[i].rid
              /\ rtp_mapping.encodings[i].scalability_mode
                     = rtp_parameters.encodings[i].scalability_mode
              /\ rtp_mapping.encodings[i].mapped_ssrc
                     = rtp_mapping.encodings[1].mapped_ssrc + (i - 1)
              /\ rtp_mapping.encodings[1].mapped_ssrc \in SsrcMin..(SsrcEnd - 1)
              /\ rtp_mapping.encodings[i].mapped_ssrc <= 2147483647

\* a mapping of two encodings whose first mapped_ssrc is the greatest of the
\* range
C9_Witness ==
    /\ pc = "mapped"
    /\ Len(rtp_mapping.encodings) = 2
    /\ rtp_mapping.encodings[1].mapped_ssrc = SsrcEnd - 1
    /\ rtp_mapping.encodings[2].mapped_ssrc = SsrcEnd

----------------------------------------------------------------------------
(* Properties of get_consumable_rtp_parameters *)

\* the codecs of a list that are not RTX codecs, in order
RECURSIVE NonRtxCodecs(_)
NonRtxCodecs(codecs) ==
    IF codecs = <<>> THEN <<>>
    ELSE (IF is_rtx(Head(codecs)) THEN <<>> ELSE <<Head(codecs)>>)
             \o NonRtxCodecs(Tail(codecs))

\* C10: the non-RTX codecs of the consumable parameters are one per non-RTX
\* codec of the producer, in order; each has a payload type that is a
\* mapped_payload_type of the mapping, the mime type, clock rate, channels and
\* rtcp_feedback of the capability codec with that preferred payload type, and
\* the parameters of the producer codec.
C10_ConsumableCodecs ==
    pc = "consumable" =>
        /\ Len(NonRtxCodecs(consumable_params.codecs))
               = Len(NonRtxCodecs(rtp_parameters.codecs))
        /\ \A k \in DOMAIN NonRtxCodecs(consumable_params.codecs) :
              /\ \E e \in Range(rtp_mapping.codecs) :
                     e.mapped_payload_type
                         = NonRtxCodecs(consumable_params.codecs)[k].payload_type
              /\ \E cap_codec \in Range(caps.codecs) :
                     /\ cap_codec.preferred_payload_type
                            = NonRtxCodecs(consumable_params.codecs)[k].payload_type
                     /\ cap_codec.mime_type
                            = NonRtxCodecs(consumable_params.codecs)[k].mime_type
                     /\ cap_codec.clock_rate
                            = NonRtxCodecs(consumable_params.codecs)[k].clock_rate
                     /\ cap_codec.channels
                            = NonRtxCodecs(consumable_params.codecs)[k].channels
                     /\ cap_codec.rtcp_feedback
                            = NonRtxCodecs(consumable_params.codecs)[k].rtcp_feedback
              /\ NonRtxCodecs(consumable_params.codecs)[k].parameters
                     = NonRtxCodecs(rtp_parameters.codecs)[k].parameters

\* consumable parameters whose first codec has the parameters of the producer
\* codec, which the capability codec does not have, and the rtcp_feedback of
\* the capability codec, which the producer codec does not have
C10_Witness ==
    /\ pc = "consumable"
    /\ consumable_params.codecs # <<>>
    /\ consumable_params.codecs[1].parameters = ("foo" :> Num(1))
    /\ consumable_params.codecs[1].parameters # caps.codecs[1].parameters
    /\ consumable_params.codecs[1].rtcp_feedback = VideoFeedback
    /\ rtp_parameters.codecs[1].rtcp_feedback = <<>>

\* C11: every RTX codec of the consumable parameters directly follows a codec
\* that is not an RTX codec, and its apt is the payload type of that codec.
C11_RtxFollowsMedia ==
    pc = "consumable" =>
        \A i \in DOMAIN consumable_params.codecs :
            is_rtx(consumable_params.codecs[i]) =>
                /\ i > 1
                /\ ~is_rtx(consumable_params.codecs[i - 1])
                /\ AptNumber(consumable_params.codecs[i])
                       = Some(consumable_params.codecs[i - 1].payload_type)

\* consumable parameters with two media codecs, of which only the second is
\* followed by an RTX codec, on a router with two RTX codecs
C11_Witness ==
    /\ pc = "consumable"
    /\ Len(consumable_params.codecs) = 3
    /\ ~is_rtx(consumable_params.codecs[1])
    /\ ~is_rtx(consumable_params.codecs[2])
    /\ is_rtx(consumable_params.codecs[3])
    /\ consumable_params.codecs[1].payload_type
           # consumable_params.codecs[2].payload_type
    /\ Cardinality({j \in DOMAIN caps.codecs : is_rtx(caps.codecs[j])}) >= 2

\* C12: the consumable parameters have as many encodings as the producer;
\* encoding i has no rid, no rtx and no codec_payload_type, its ssrc is the
\* mapped_ssrc of entry i of the mapping, and its dtx, scalability_mode and
\* max_bitrate are those of encoding i of the producer.
C12_ConsumableEncodings ==
    pc = "consumable" =>
        /\ Len(consumable_params.encodings) = Len(rtp_parameters.encodings)
        /\ \A i \in DOMAIN consumable_params.encodings :
              /\ consumable_params.encodings[i].rid = None
              /\ consumable_params.encodings[i].rtx = None
              /\ consumable_params.encodings[i].codec_payload_type = None
              /\ consumable_params.encodings[i].ssrc
                     = Some(rtp_mapping.encodings[i].mapped_ssrc)
              /\ consumable_params.encodings[i].dtx
                     = rtp_parameters.encodings[i].dtx
              /\ consumable_params.encodings[i].scalability_mode
                     = rtp_parameters.encodings[i].scalability_mode
              /\ consumable_params.encodings[i].max_bitrate
                     = rtp_parameters.encodings[i].max_bitrate

\* consumable parameters of a producer with two encodings, one with an rtx and
\* one with a rid, a codec_payload_type and a dtx
C12_Witness ==
    /\ pc = "consumable"
    /\ Len(rtp_parameters.encodings) = 2
    /\ rtp_parameters.encodings[1].rtx # None
    /\ rtp_parameters.encodings[2].codec_payload_type # None
    /\ rtp_parameters.encodings[2].dtx = Some(TRUE)
    /\ consumable_params.encodings[2].dtx = Some(TRUE)
    /\ consumable_params.encodings[1].scalability_mode = Some("L1T3")
    /\ consumable_params.encodings[1].ssrc # rtp_parameters.encodings[1].ssrc

----------------------------------------------------------------------------
(* Properties of the consumers *)

\* get_consumable_rtp_parameters returned
Consumable == pc \in {"consumable", "consumer", "consumer_failed", "pipe_consumer"}

\* C13: the rtcp of the consumable parameters has reduced_size true, mux true
\* and the cname of the producer, whatever the reduced_size and the mux of the
\* producer; the rtcp of the parameters of a consumer and of a pipe consumer
\* is the rtcp of the consumable parameters.
C13_Rtcp ==
    /\ Consumable =>
          consumable_params.rtcp = Rtcp(rtp_parameters.rtcp.cname, TRUE, Some(TRUE))
    /\ pc = "consumer" => consumer_params.rtcp = consumable_params.rtcp
    /\ pc = "pipe_consumer" => pipe_consumer_params.rtcp = consumable_params.rtcp

\* a consumer of a producer without cname, with reduced_size false and mux
\* false
C13_Witness ==
    /\ pc = "consumer"
    /\ rtp_parameters.rtcp = Rtcp(None, FALSE, Some(FALSE))
    /\ consumer_params.rtcp = Rtcp(None, TRUE, Some(TRUE))

\* C14: get_consumable_rtp_parameters returns consumable parameters for every
\* kind, parameters, capabilities and mapping, also when the mapping has no
\* entry for the payload type of a codec of the producer, or maps it to a
\* payload type that no capability codec has.
C14_Infallible == pc # "consumable_aborted"

\* get_consumable_rtp_parameters called with a mapping that has no entry for
\* the media codec of the producer
C14_Witness ==
    /\ pc = "consumable_aborted"
    /\ ~is_rtx(rtp_parameters.codecs[1])
    /\ \A e \in Range(rtp_mapping.codecs) :
           e.payload_type # rtp_parameters.codecs[1].payload_type

\* get_consumer_rtp_parameters returned
ConsumerReturned == pc \in {"consumer", "consumer_failed"}

\* some codec of the capabilities of the consumer strictly matches the codec
MatchedByConsumer(codec) ==
    \E j \in DOMAIN consumer_caps.codecs :
        Matches(consumer_caps.codecs[j], codec, TRUE).ok

\* the consumable codecs that survive the matching and the sanitization of the
\* RTX codecs, by index
Survivors ==
    {i \in DOMAIN consumable_params.codecs :
        /\ MatchedByConsumer(consumable_params.codecs[i])
        /\ is_rtx(consumable_params.codecs[i]) =>
               \E k \in DOMAIN consumable_params.codecs :
                   /\ MatchedByConsumer(consumable_params.codecs[k])
                   /\ AptNumber(consumable_params.codecs[i])
                          = Some(consumable_params.codecs[k].payload_type)}

\* C15: the codecs of a successful result of get_consumer_rtp_parameters are
\* not empty and the first one is not an RTX codec; when the capabilities of
\* the consumer are valid and no consumable codec survives the matching and the
\* sanitization of the RTX codecs, or the first survivor is an RTX codec, the
\* call fails with NoCompatibleMediaCodecs.
C15_MediaCodecFirst ==
    /\ pc = "consumer" =>
          /\ consumer_params.codecs # <<>>
          /\ ~is_rtx(consumer_params.codecs[1])
    /\ (/\ ConsumerReturned
        /\ validate_rtp_capabilities(consumer_caps.codecs) = None
        /\ \/ Survivors = {}
           \/ is_rtx(consumable_params.codecs[MinOrZero(Survivors)]))
           => /\ pc = "consumer_failed"
              /\ consumer_error = Some(ConsumerError("NoCompatibleMediaCodecs", None))

\* a call that fails because the first of two surviving codecs is an RTX codec
C15_Witness ==
    /\ pc = "consumer_failed"
    /\ consumer_error = Some(ConsumerError("NoCompatibleMediaCodecs", None))
    /\ Cardinality(Survivors) = 2
    /\ is_rtx(consumable_params.codecs[MinOrZero(Survivors)])

\* the uris of a list of header extensions
Uris(header_extensions) ==
    {header_extensions[i].uri : i \in DOMAIN header_extensions}

\* the rtcp_feedback of the first codec of the capabilities of the consumer
\* that strictly matches the codec
ConsumerFeedback(codec) ==
    consumer_caps.codecs[MinOrZero({j \in DOMAIN consumer_caps.codecs :
        Matches(consumer_caps.codecs[j], codec, TRUE).ok})].rtcp_feedback

\* C16: in a successful result of get_consumer_rtp_parameters no codec has
\* both transport-cc and goog-remb: when the header extensions of the result
\* include TransportWideCCDraft01, every codec has the feedback of the
\* capabilities of the consumer without goog-remb; otherwise, when they
\* include AbsSendTime, without transport-cc; otherwise without both. The
\* header extensions that decide are those of the result, not those of the
\* consumable parameters.
C16_FeedbackReduction ==
    pc = "consumer" =>
        \A i \in DOMAIN consumer_params.codecs :
            /\ ~({"transport-cc", "goog-remb"}
                    \subseteq Range(consumer_params.codecs[i].rtcp_feedback))
            /\ consumer_params.codecs[i].rtcp_feedback
                  = IF "TransportWideCCDraft01" \in Uris(consumer_params.header_extensions)
                    THEN RetainFeedback(ConsumerFeedback(consumer_params.codecs[i]),
                                        {"goog-remb"})
                    ELSE IF "AbsSendTime" \in Uris(consumer_params.header_extensions)
                    THEN RetainFeedback(ConsumerFeedback(consumer_params.codecs[i]),
                                        {"transport-cc"})
                    ELSE RetainFeedback(ConsumerFeedback(consumer_params.codecs[i]),
                                        {"transport-cc", "goog-remb"})

\* a consumer without TransportWideCCDraft01 of consumable parameters that
\* have it: goog-remb stays, transport-cc goes
C16_Witness ==
    /\ pc = "consumer"
    /\ "TransportWideCCDraft01" \in Uris(consumable_params.header_extensions)
    /\ "TransportWideCCDraft01" \notin Uris(consumer_params.header_extensions)
    /\ "AbsSendTime" \in Uris(consumer_params.header_extensions)
    /\ consumer_params.codecs[1].rtcp_feedback = <<"nack", "goog-remb">>

\* the header extensions of the consumable parameters that have the uri and,
\* as id, the preferred_id of a header extension of the consumer, by index
RetainedHeaderExtensions ==
    {i \in DOMAIN consumable_params.header_extensions :
        \E j \in DOMAIN consumer_caps.header_extensions :
            /\ consumer_caps.header_extensions[j].uri
                   = consumable_params.header_extensions[i].uri
            /\ consumer_caps.header_extensions[j].preferred_id
                   = consumable_params.header_extensions[i].id}

\* C17: the header extensions of a consumer are the header extensions of the
\* consumable parameters, in their order, whose uri and id are the uri and the
\* preferred_id of some header extension of the capabilities of the consumer.
C17_HeaderExtensions ==
    pc = "consumer" =>
        /\ Len(consumer_params.header_extensions)
               = Cardinality(RetainedHeaderExtensions)
        /\ \A i \in RetainedHeaderExtensions :
               consumer_params.header_extensions[
                   Cardinality({j \in RetainedHeaderExtensions : j <= i})]
                   = consumable_params.header_extensions[i]

\* a consumer that has TransportWideCCDraft01 under another id than the
\* consumable parameters: it is dropped, TimeOffset is retained
C17_Witness ==
    /\ pc = "consumer"
    /\ \E j \in DOMAIN consumer_caps.header_extensions :
           /\ consumer_caps.header_extensions[j].uri = "TransportWideCCDraft01"
           /\ consumer_caps.header_extensions[j].preferred_id = 7
    /\ \E i \in DOMAIN consumable_params.header_extensions :
           /\ consumable_params.header_extensions[i].uri = "TransportWideCCDraft01"
           /\ consumable_params.header_extensions[i].id = 5
    /\ Uris(consumer_params.header_extensions) = {"TimeOffset"}

\* C18: a successful result of get_consumer_rtp_parameters has exactly one
\* encoding, whatever the number of encodings of the consumable parameters;
\* its ssrc lies in [100000000, 999999999), and it has an rtx exactly when the
\* codecs of the result include an RTX codec.
C18_OneEncoding ==
    pc = "consumer" =>
        /\ Len(consumer_params.encodings) = 1
        /\ consumer_params.encodings[1].ssrc # None
        /\ Unwrap(consumer_params.encodings[1].ssrc) \in SsrcMin..(SsrcEnd - 1)
        /\ consumer_params.encodings[1].rtx # None
               <=> \E i \in DOMAIN consumer_params.codecs :
                       is_rtx(consumer_params.codecs[i])

\* a consumer without RTX codec of consumable parameters with two encodings
C18_Witness ==
    /\ pc = "consumer"
    /\ Len(consumable_params.encodings) = 2
    /\ Len(consumer_params.encodings) = 1
    /\ \A i \in DOMAIN consumer_params.codecs : ~is_rtx(consumer_params.codecs[i])
    /\ consumer_params.encodings[1].rtx = None
    /\ consumer_params.encodings[1].ssrc = Some(SsrcEnd - 1)

\* the max_bitrate of the encodings of the consumable parameters that have one
ConsumableBitrates ==
    {Unwrap(consumable_params.encodings[i].max_bitrate) :
        i \in {j \in DOMAIN consumable_params.encodings :
                  consumable_params.encodings[j].max_bitrate # None}}

\* the scalability_mode of the first encoding of the consumable parameters
\* that has one
BorrowedScalabilityMode ==
    IF \A i \in DOMAIN consumable_params.encodings :
           consumable_params.encodings[i].scalability_mode = None
    THEN None
    ELSE consumable_params.encodings[
             MinOrZero({i \in DOMAIN consumable_params.encodings :
                 consumable_params.encodings[i].scalability_mode # None})
         ].scalability_mode

\* C19: the max_bitrate of the encoding of a consumer is the greatest
\* max_bitrate of the encodings of the consumable parameters that have one,
\* absent when none has one; its scalability_mode is that of the first
\* consumable encoding that has one when there is at most one consumable
\* encoding, and with N > 1 consumable encodings it is S<N>T<T>, T being the
\* temporal layers parsed from that mode, 0 when there is none or it does not
\* parse.
C19_EncodingSummary ==
    pc = "consumer" =>
        /\ consumer_params.encodings[1].max_bitrate
               = IF ConsumableBitrates = {} THEN None
                 ELSE Some(CHOOSE m \in ConsumableBitrates :
                               \A n \in ConsumableBitrates : n <= m)
        /\ consumer_params.encodings[1].scalability_mode
               = IF Len(consumable_params.encodings) <= 1
                 THEN BorrowedScalabilityMode
                 ELSE Some("S" \o ToString(Len(consumable_params.encodings))
                               \o "T"
                               \o ToString(TemporalLayers(BorrowedScalabilityMode)))

\* the consumer of three encodings with L1T3 and the max_bitrate 111111,
\* 222222 and 333333
C19_Witness ==
    /\ pc = "consumer"
    /\ Len(consumable_params.encodings) = 3
    /\ \A i \in 1..3 : consumable_params.encodings[i].scalability_mode = Some("L1T3")
    /\ consumer_params.encodings[1].scalability_mode = Some("S3T3")
    /\ consumer_params.encodings[1].max_bitrate = Some(333333)

\* C20: a pipe consumer has one encoding per encoding of the consumable
\* parameters, in order; the ssrc of encoding i is the ssrc of the first one
\* plus i, the first one being a result of generate_ssrc; its rtx has the
\* ssrc of the rtx of the first one plus i when enable_rtx is set, and is
\* absent otherwise; its other fields are those of the consumable encoding i.
C20_PipeEncodings ==
    pc = "pipe_consumer" =>
        /\ Len(pipe_consumer_params.encodings) = Len(consumable_params.encodings)
        /\ \A i \in DOMAIN pipe_consumer_params.encodings :
              /\ Unwrap(pipe_consumer_params.encodings[1].ssrc)
                     \in SsrcMin..(SsrcEnd - 1)
              /\ pipe_consumer_params.encodings[i].ssrc
                     = Some(Unwrap(pipe_consumer_params.encodings[1].ssrc) + (i - 1))
              /\ IF pipe_enable_rtx
                 THEN /\ Unwrap(pipe_consumer_params.encodings[1].rtx).ssrc
                             \in SsrcMin..(SsrcEnd - 1)
                      /\ pipe_consumer_params.encodings[i].rtx
                             = Some([ssrc |->
                                   Unwrap(pipe_consumer_params.encodings[1].rtx).ssrc
                                       + (i - 1)])
                 ELSE pipe_consumer_params.encodings[i].rtx = None
              /\ pipe_consumer_params.encodings[i].rid
                     = consumable_params.encodings[i].rid
              /\ pipe_consumer_params.encodings[i].codec_payload_type
                     = consumable_params.encodings[i].codec_payload_type
              /\ pipe_consumer_params.encodings[i].dtx
                     = consumable_params.encodings[i].dtx
              /\ pipe_consumer_params.encodings[i].scalability_mode
                     = consumable_params.encodings[i].scalability_mode
              /\ pipe_consumer_params.encodings[i].max_bitrate
                     = consumable_params.encodings[i].max_bitrate

\* a pipe consumer with RTX of three encodings, with different ssrc for the
\* encodings and for their rtx
C20_Witness ==
    /\ pc = "pipe_consumer"
    /\ pipe_enable_rtx
    /\ Len(consumable_params.encodings) = 3
    /\ pipe_consumer_params.encodings[3].ssrc = Some(SsrcEnd + 1)
    /\ pipe_consumer_params.encodings[3].rtx = Some([ssrc |-> SsrcMin + 2])
    /\ pipe_consumer_params.encodings[3].max_bitrate = Some(333333)
    /\ pipe_consumer_params.encodings[1].max_bitrate = Some(111111)

----------------------------------------------------------------------------
(* Properties of the pipe consumer *)

\* some codec of the list is an RTX codec
HasRtx(codecs) == \E i \in DOMAIN codecs : is_rtx(codecs[i])

IsPliOrFir(fb) == fb \in {"nack-pli", "ccm-fir"}
IsNackPliOrFir(fb) == fb \in {"nack", "nack-pli", "ccm-fir"}

\* C21 as stated: a pipe consumer has RTX codecs if and only if enable_rtx is
\* set.
C21_RtxIffEnabled ==
    pc = "pipe_consumer" => (HasRtx(pipe_consumer_params.codecs) <=> pipe_enable_rtx)

\* C21, amended: a pipe consumer has RTX codecs if and only if enable_rtx is
\* set and the consumable parameters have RTX codecs. Without enable_rtx its
\* codecs are the consumable codecs that are not RTX codecs, with nack-pli and
\* ccm-fir as only feedback; with enable_rtx they are all the consumable
\* codecs, with nack, nack-pli and ccm-fir as only feedback; goog-remb and
\* transport-cc never appear.
C21_PipeCodecs ==
    pc = "pipe_consumer" =>
        /\ HasRtx(pipe_consumer_params.codecs)
               <=> (pipe_enable_rtx /\ HasRtx(consumable_params.codecs))
        /\ IF pipe_enable_rtx
           THEN pipe_consumer_params.codecs
                    = [i \in DOMAIN consumable_params.codecs |->
                          [consumable_params.codecs[i] EXCEPT !.rtcp_feedback =
                              SelectSeq(@, IsNackPliOrFir)]]
           ELSE pipe_consumer_params.codecs
                    = [i \in DOMAIN NonRtxCodecs(consumable_params.codecs) |->
                          [NonRtxCodecs(consumable_params.codecs)[i]
                              EXCEPT !.rtcp_feedback = SelectSeq(@, IsPliOrFir)]]
        /\ \A i \in DOMAIN pipe_consumer_params.codecs :
               Range(pipe_consumer_params.codecs[i].rtcp_feedback)
                   \cap {"goog-remb", "transport-cc"} = {}

\* a pipe consumer with enable_rtx of consumable parameters without RTX codec
C21_Witness ==
    /\ pc = "pipe_consumer"
    /\ pipe_enable_rtx
    /\ consumable_params.codecs # <<>>
    /\ ~HasRtx(consumable_params.codecs)
    /\ ~HasRtx(pipe_consumer_params.codecs)

----------------------------------------------------------------------------
(* Properties of match_codecs *)

\* match_codecs returned
Matched == pc = "matched"

\* the result of the call with the operands exchanged
Exchanged ==
    match_codecs(Unwrap(matching.codec_b), Unwrap(matching.codec_a),
                 matching.strict)

\* C22: match_codecs(A, B, strict) is a mismatch if and only if
\* match_codecs(B, A, strict) is one, for both values of strict; only the
\* profile-level-id returned may depend on the order.
C22_Symmetric ==
    Matched => (Unwrap(matching.result).ok <=> Exchanged.ok)

\* a strict match of two H.264 codecs of the same profile whose
\* profile-level-id depends on the order of the operands
C22_Witness ==
    /\ Matched
    /\ matching.strict
    /\ Unwrap(matching.result).ok
    /\ Exchanged.ok
    /\ Unwrap(matching.result).profile_level_id # Exchanged.profile_level_id

----------------------------------------------------------------------------
(* C24: the precedence of the payload types of the finalizer *)

\* the payload types of the codecs emitted so far
EmittedPayloadTypes(codecs) ==
    {codecs[i].preferred_payload_type : i \in DOMAIN codecs}

\* the pool 100..127, 96..99 without the payload types taken, in its order
RECURSIVE Without(_, _)
Without(pool, taken) ==
    IF pool = <<>> THEN <<>>
    ELSE (IF Head(pool) \in taken THEN <<>> ELSE <<Head(pool)>>)
             \o Without(Tail(pool), taken)

\* the first value of the pool that is not taken
FirstRemaining(taken) == Head(Without(DYNAMIC_PAYLOAD_TYPES, taken))

\* the payload type the claim gives the media codec, the emitted codecs given
PayloadTypeByPrecedence(media_codec, codecs) ==
    IF media_codec.preferred_payload_type # None
    THEN Unwrap(media_codec.preferred_payload_type)
    ELSE IF SupportedCodecs[FindSupportedCodec(media_codec)].preferred_payload_type # None
    THEN Unwrap(SupportedCodecs[FindSupportedCodec(media_codec)].preferred_payload_type)
    ELSE FirstRemaining(EmittedPayloadTypes(codecs))

\* the payload types of a list of codecs, in order
PayloadTypesOf(codecs) ==
    [i \in DOMAIN codecs |-> codecs[i].preferred_payload_type]

\* C24: an iteration of the finalizer that emits a codec gives it the
\* preferred payload type of the media codec when it has one, else the
\* payload type the supported table fixes for it, else the first remaining
\* value of the pool 100..127, 96..99; the RTX companion of a video codec
\* takes the first value that remains after that; the pool that is left is
\* the initial pool, in its order, without the payload types emitted. For
\* [Opus, VP8 preferring 125, H264] the payload types are 100, 125, 101 (RTX,
\* apt 125), 102, 103 (RTX, apt 102).
C24_Precedence ==
    [][/\ (IsProcessing /\ idx' = idx + 1) =>
              /\ caps'.codecs[Len(caps.codecs) + 1].preferred_payload_type
                     = PayloadTypeByPrecedence(media_codecs[idx], caps.codecs)
              /\ media_codecs[idx].kind = "video" =>
                     /\ Len(caps'.codecs) = Len(caps.codecs) + 2
                     /\ caps'.codecs[Len(caps.codecs) + 2].mime_type = "video/rtx"
                     /\ caps'.codecs[Len(caps.codecs) + 2].preferred_payload_type
                            = FirstRemaining(
                                  EmittedPayloadTypes(caps.codecs)
                                      \cup {PayloadTypeByPrecedence(media_codecs[idx],
                                                                    caps.codecs)})
              /\ media_codecs[idx].kind = "audio" =>
                     Len(caps'.codecs) = Len(caps.codecs) + 1
              /\ dynamic_payload_types'
                     = Without(DYNAMIC_PAYLOAD_TYPES,
                               EmittedPayloadTypes(caps'.codecs))
       /\ (media_codecs = TestMediaCodecs /\ pc' = "router") =>
              /\ PayloadTypesOf(caps'.codecs) = <<100, 125, 101, 102, 103>>
              /\ caps'.codecs[3].parameters = ("apt" :> Num(125))
              /\ caps'.codecs[5].parameters = ("apt" :> Num(102))
      ]_vars

\* the finalizer has given a preferred payload type, a table-fixed one and,
\* after the pool wrapped from 127 to 96, a dynamic one
C24_Witness ==
    /\ pc = "router"
    /\ Len(media_codecs) >= 3
    /\ media_codecs[1] = Vp8Pt125Cap
    /\ media_codecs[Len(media_codecs)] = PcmuCap
    /\ \E i \in DOMAIN caps.codecs : caps.codecs[i].preferred_payload_type = 96
    /\ caps.codecs[1].preferred_payload_type = 125
    /\ caps.codecs[Len(caps.codecs)].preferred_payload_type = 0

----------------------------------------------------------------------------
(* C25: what a finalized codec takes from the supported table *)

\* the supported codec the media codec of this iteration matches
MatchedSupportedCodec == SupportedCodecs[FindSupportedCodec(media_codecs[idx])]

\* C25: the codec an iteration of the finalizer emits has the mime type,
\* clock rate, channels and rtcp_feedback of the supported codec it matched,
\* whatever the media codec has; its parameters have the keys of both, with
\* the value of the media codec on the keys the media codec has and the value
\* of the supported codec on the others.
C25_FinalizedCodec ==
    [][(IsProcessing /\ idx' = idx + 1) =>
          /\ caps'.codecs[Len(caps.codecs) + 1].mime_type
                 = MatchedSupportedCodec.mime_type
          /\ caps'.codecs[Len(caps.codecs) + 1].clock_rate
                 = MatchedSupportedCodec.clock_rate
          /\ caps'.codecs[Len(caps.codecs) + 1].channels
                 = MatchedSupportedCodec.channels
          /\ caps'.codecs[Len(caps.codecs) + 1].rtcp_feedback
                 = MatchedSupportedCodec.rtcp_feedback
          /\ DOMAIN caps'.codecs[Len(caps.codecs) + 1].parameters
                 = (DOMAIN MatchedSupportedCodec.parameters)
                       \cup (DOMAIN media_codecs[idx].parameters)
          /\ \A key \in DOMAIN media_codecs[idx].parameters :
                 caps'.codecs[Len(caps.codecs) + 1].parameters[key]
                     = media_codecs[idx].parameters[key]
          /\ \A key \in (DOMAIN MatchedSupportedCodec.parameters)
                            \ (DOMAIN media_codecs[idx].parameters) :
                 caps'.codecs[Len(caps.codecs) + 1].parameters[key]
                     = MatchedSupportedCodec.parameters[key]
      ]_vars

\* an H.264 codec with level-asymmetry-allowed 0, a parameter of its own and
\* the feedback nack was finalized: the parameter of the media codec won over
\* the 1 of the supported codec, packetization-mode came from the supported
\* codec and the feedback is the supported codec's
C25_Witness ==
    /\ pc = "router"
    /\ Len(media_codecs) = 2
    /\ media_codecs[1] = H264AsymmetryCap
    /\ caps.codecs[1].parameters
           = ("level-asymmetry-allowed" :> Num(0)) @@ ("foo" :> Str("bar"))
                 @@ ("packetization-mode" :> Num(0))
    /\ caps.codecs[1].rtcp_feedback = VideoFeedback
    /\ media_codecs[1].rtcp_feedback = <<"nack">>

----------------------------------------------------------------------------
(* C26: duplicated preferred payload types *)

\* the iteration on media_codecs[idx] reaches the choice of a payload type
\* and does not fail for want of a dynamic one
ChoosesPayloadType ==
    /\ IsProcessing
    /\ validate_rtp_codec_capability(media_codecs[idx]) = None
    /\ FindSupportedCodec(media_codecs[idx]) # 0
    /\ NeedsDynamicPayloadType(media_codecs[idx]) => dynamic_payload_types # <<>>

DuplicatedPreferredPayloadType(payload_type) ==
    Some(CapabilitiesError("DuplicatedPreferredPayloadType", "",
                           Some(payload_type), ""))

\* C26: an iteration of the finalizer that chooses a payload type fails with
\* DuplicatedPreferredPayloadType(pt) exactly when the payload type pt it
\* chose is the preferred payload type of a codec emitted before, a media
\* codec or an RTX companion. [Opus, VP8 preferring 100] fails on 100 while
\* [VP8 preferring 100, Opus] succeeds, and [PCMU, PCMU] fails on the
\* table-fixed 0: the acceptance of a list depends on its order.
C26_Duplicated ==
    [][/\ ChoosesPayloadType =>
              /\ (PayloadTypeByPrecedence(media_codecs[idx], caps.codecs)
                      \in EmittedPayloadTypes(caps.codecs))
                     => router_error' = DuplicatedPreferredPayloadType(
                                            PayloadTypeByPrecedence(media_codecs[idx],
                                                                    caps.codecs))
              /\ (PayloadTypeByPrecedence(media_codecs[idx], caps.codecs)
                      \notin EmittedPayloadTypes(caps.codecs))
                     => ~(router_error' # None
                            /\ Unwrap(router_error').error
                                   = "DuplicatedPreferredPayloadType")
       /\ (media_codecs = <<OpusCap, Vp8Pt100Cap>> /\ IsProcessing /\ idx = 2) =>
              router_error' = DuplicatedPreferredPayloadType(100)
       /\ (media_codecs = <<Vp8Pt100Cap, OpusCap>> /\ IsProcessing) =>
              router_error' = None
       /\ (media_codecs = <<PcmuCap, PcmuCap>> /\ IsProcessing /\ idx = 2) =>
              router_error' = DuplicatedPreferredPayloadType(0)
      ]_vars

\* a VP8 codec that prefers 101 came after a VP8 codec whose RTX companion
\* had taken 101 from the pool, and the finalizer failed
C26_Witness ==
    /\ pc = "generate_failed"
    /\ router_error = DuplicatedPreferredPayloadType(101)
    /\ media_codecs[idx] = Vp8Pt101Cap
    /\ \E i \in DOMAIN caps.codecs :
           /\ caps.codecs[i].mime_type = "video/rtx"
           /\ caps.codecs[i].preferred_payload_type = 101

----------------------------------------------------------------------------
(* C27: the RTX codecs of the producer in the mapping *)

\* the media (non-RTX) codecs of the producer the apt of codec i names
MediaCodecsForRtx(i) ==
    {j \in DOMAIN rtp_parameters.codecs :
        /\ ~is_rtx(rtp_parameters.codecs[j])
        /\ AptNumber(rtp_parameters.codecs[i])
               = Some(rtp_parameters.codecs[j].payload_type)}

\* the payload type the media codec of RTX codec i is mapped to
MappedPayloadTypeForRtx(i) ==
    Unwrap(FindCapCodec(rtp_parameters.codecs[MinOrZero(MediaCodecsForRtx(i))],
                        caps.codecs)).preferred_payload_type

\* the RTX codecs of the capabilities whose apt is the payload type
CapRtxCodecs(payload_type) ==
    {k \in DOMAIN caps.codecs :
        /\ is_rtx(caps.codecs[k])
        /\ AptNumber(caps.codecs[k]) = Some(payload_type)}

\* the RTX codecs of the producer that cannot be mapped, by index
UnmappableRtxCodecs ==
    {i \in DOMAIN rtp_parameters.codecs :
        /\ is_rtx(rtp_parameters.codecs[i])
        /\ \/ MediaCodecsForRtx(i) = {}
           \/ CapRtxCodecs(MappedPayloadTypeForRtx(i)) = {}}

\* what the mapping builder returns for the first RTX codec that cannot be
\* mapped
RtxMappingError(i) ==
    IF MediaCodecsForRtx(i) = {}
    THEN Some(MappingError("MissingMediaCodecForRTX", "",
                           Some(rtp_parameters.codecs[i].payload_type)))
    ELSE Some(MappingError("UnsupportedRTXCodec", "",
                           Some(MappedPayloadTypeForRtx(i))))

\* every RTX codec of the producer has an entry that maps it to the payload
\* type of the capability RTX codec of its media codec
RtxCodecsMapped ==
    \A i \in DOMAIN rtp_parameters.codecs :
        is_rtx(rtp_parameters.codecs[i]) =>
            \E e \in Range(rtp_mapping.codecs) :
                /\ e.payload_type = rtp_parameters.codecs[i].payload_type
                /\ \E k \in CapRtxCodecs(MappedPayloadTypeForRtx(i)) :
                       e.mapped_payload_type
                           = caps.codecs[k].preferred_payload_type

\* the result the claim gives the RTX codecs, once every media codec of the
\* producer is matched
RtxMappingResult ==
    IF UnmappableRtxCodecs = {}
    THEN Mapped /\ RtxCodecsMapped
    ELSE /\ pc = "mapping_failed"
         /\ mapping_error = RtxMappingError(MinOrZero(UnmappableRtxCodecs))

\* C27: for the RTX codecs of the producer the mapping builder returns a
\* result in every case and never aborts: MissingMediaCodecForRTX with the
\* payload type of the first RTX codec whose apt is no integer payload type of
\* a non-RTX codec of the producer (apt missing, a string, naming no codec or
\* naming an RTX codec such as itself), else UnsupportedRTXCodec when the
\* capabilities hold no RTX codec whose apt is the mapped payload type, else
\* the RTX codec is mapped to the preferred payload type of that RTX codec.
C27_RtxMapping ==
    (MappingReturned /\ UnmatchedMediaCodecs = {}) =>
        /\ pc # "mapping_aborted"
        /\ RtxMappingResult

\* the producer lists an RTX codec whose apt is its own payload type, all its
\* media codecs are matched, and the mapping builder panicked
C27_Witness ==
    /\ pc = "mapping_aborted"
    /\ UnmatchedMediaCodecs = {}
    /\ \E i \in DOMAIN rtp_parameters.codecs :
           /\ is_rtx(rtp_parameters.codecs[i])
           /\ AptNumber(rtp_parameters.codecs[i])
                  = Some(rtp_parameters.codecs[i].payload_type)
           /\ MediaCodecsForRtx(i) = {}

\* some RTX codec of the producer has an apt that is the payload type of an
\* RTX codec of the producer
RtxNamesRtx ==
    \E i, j \in DOMAIN rtp_parameters.codecs :
        /\ is_rtx(rtp_parameters.codecs[i])
        /\ is_rtx(rtp_parameters.codecs[j])
        /\ AptNumber(rtp_parameters.codecs[i])
               = Some(rtp_parameters.codecs[j].payload_type)

\* when no apt names an RTX codec, the RTX codecs get the result of the claim
\* and the mapping builder does not panic
C27_RtxMappingOfMediaApt ==
    (MappingReturned /\ UnmatchedMediaCodecs = {} /\ ~RtxNamesRtx) =>
        /\ pc # "mapping_aborted"
        /\ RtxMappingResult

\* the apt of an RTX codec named an RTX codec mapped before it, and the
\* mapping builder returned UnsupportedRTXCodec, not MissingMediaCodecForRTX
C27_UnsupportedForRtxApt ==
    /\ pc = "mapping_failed"
    /\ UnmatchedMediaCodecs = {}
    /\ UnmappableRtxCodecs # {}
    /\ MediaCodecsForRtx(MinOrZero(UnmappableRtxCodecs)) = {}
    /\ Unwrap(mapping_error).error = "UnsupportedRTXCodec"

----------------------------------------------------------------------------
(* C28: the RTX codecs of the consumer after the sanitization *)

\* the codecs at the indices, in the order of the list
RECURSIVE CodecsAt(_, _, _)
CodecsAt(codecs, indices, i) ==
    IF i > Len(codecs) THEN <<>>
    ELSE (IF i \in indices THEN <<codecs[i]>> ELSE <<>>)
             \o CodecsAt(codecs, indices, i + 1)

\* the codecs without their feedback, which the consumer rewrites
WithoutFeedback(codecs) ==
    [i \in DOMAIN codecs |-> [codecs[i] EXCEPT !.rtcp_feedback = <<>>]]

\* the consumable codecs the consumer matches, an RTX codec only if the media
\* (non-RTX) codec its apt names is matched too, by index
KeptCodecs ==
    {i \in DOMAIN consumable_params.codecs :
        /\ MatchedByConsumer(consumable_params.codecs[i])
        /\ is_rtx(consumable_params.codecs[i]) =>
               \E k \in DOMAIN consumable_params.codecs :
                   /\ ~is_rtx(consumable_params.codecs[k])
                   /\ MatchedByConsumer(consumable_params.codecs[k])
                   /\ AptNumber(consumable_params.codecs[i])
                          = Some(consumable_params.codecs[k].payload_type)}

\* C28: in the codecs get_consumer_rtp_parameters returns, every RTX codec has
\* an apt that is the payload type of a media (non-RTX) codec of the same
\* list; the list is, in the order of the consumable parameters, the matched
\* media codecs and the matched RTX codecs whose media codec is matched: an
\* RTX codec whose media codec is not matched is removed although the RTX
\* codec of the capabilities matches it.
C28_RtxSanitized ==
    pc = "consumer" =>
        /\ \A i \in DOMAIN consumer_params.codecs :
               is_rtx(consumer_params.codecs[i]) =>
                   \E j \in DOMAIN consumer_params.codecs :
                       /\ ~is_rtx(consumer_params.codecs[j])
                       /\ AptNumber(consumer_params.codecs[i])
                              = Some(consumer_params.codecs[j].payload_type)
        /\ WithoutFeedback(consumer_params.codecs)
               = WithoutFeedback(CodecsAt(consumable_params.codecs, KeptCodecs, 1))

\* the consumer matched VP8 and both RTX codecs of a consumable of H.264 and
\* VP8, and the result has VP8 and its RTX codec only
C28_Witness ==
    /\ pc = "consumer"
    /\ Len(consumable_params.codecs) = 4
    /\ Len(consumer_params.codecs) = 2
    /\ consumer_params.codecs[1].mime_type = "video/VP8"
    /\ \E i \in DOMAIN consumable_params.codecs :
           /\ is_rtx(consumable_params.codecs[i])
           /\ MatchedByConsumer(consumable_params.codecs[i])
           /\ i \notin KeptCodecs
    /\ is_rtx(consumer_params.codecs[2])

----------------------------------------------------------------------------
(* C29: what match_codecs compares *)

\* the value of the parameter, the number 0 when the codec has none
ValueOrZero(codec, key) ==
    IF key \in DOMAIN codec.parameters THEN codec.parameters[key] ELSE Num(0)

\* the profile-level-id strings of the two codecs parse to the same profile
SameH264Profile(codec_a, codec_b) ==
    is_same_profile(ProfileLevelIdParam(codec_a.parameters),
                    ProfileLevelIdParam(codec_b.parameters)) # None

\* the codecs agree on what the claim says match_codecs compares
Agree(codec_a, codec_b, strict) ==
    /\ codec_a.mime_type = codec_b.mime_type
    /\ codec_a.channels = codec_b.channels
    /\ codec_a.clock_rate = codec_b.clock_rate
    /\ codec_a.mime_type = "video/H264" =>
           /\ ValueOrZero(codec_a, "packetization-mode")
                  = ValueOrZero(codec_b, "packetization-mode")
           /\ strict => SameH264Profile(codec_a, codec_b)
    /\ (codec_a.mime_type = "video/VP9" /\ strict) =>
           ValueOrZero(codec_a, "profile-id") = ValueOrZero(codec_b, "profile-id")

\* C29: match_codecs reports a match exactly when the codecs have the same
\* mime type, channels and clock rate, for H.264 the same packetization-mode
\* (0 when absent), strict or not, and the same profile when strict, and for
\* VP9 the same profile-id (0 when absent) when strict; it returns a
\* profile-level-id only for a strict match of H.264 codecs, and none for
\* every non-strict match and every match of other codecs.
C29_Compared ==
    Matched =>
        /\ Unwrap(matching.result).ok
               <=> Agree(Unwrap(matching.codec_a), Unwrap(matching.codec_b),
                         matching.strict)
        /\ Unwrap(matching.result).profile_level_id # None =>
               /\ Unwrap(matching.result).ok
               /\ matching.strict
               /\ Unwrap(matching.codec_a).mime_type = "video/H264"

\* two VP9 codecs whose profile-id differs matched without strict
C29_Witness ==
    /\ Matched
    /\ ~matching.strict
    /\ Unwrap(matching.result).ok
    /\ Unwrap(matching.codec_a).mime_type = "video/VP9"
    /\ ValueOrZero(Unwrap(matching.codec_a), "profile-id")
           # ValueOrZero(Unwrap(matching.codec_b), "profile-id")
    /\ Unwrap(matching.result).profile_level_id = None

----------------------------------------------------------------------------
(* C30: can_consume and get_consumer_rtp_parameters *)

\* can_consume and get_consumer_rtp_parameters have both returned, on
\* capabilities that pass the validation
BothReturned ==
    /\ ConsumerReturned
    /\ can_consume_result # None
    /\ validate_rtp_capabilities(consumer_caps.codecs) = None

\* some media codec of the consumable parameters is matched by the
\* capabilities of the consumer
SomeMediaCodecMatched ==
    \E i \in DOMAIN consumable_params.codecs :
        /\ ~is_rtx(consumable_params.codecs[i])
        /\ MatchedByConsumer(consumable_params.codecs[i])

\* C30: on capabilities that pass the validation can_consume returns true
\* exactly when get_consumer_rtp_parameters succeeds on the same consumable
\* parameters and capabilities, which is exactly when the capabilities match
\* some media codec of the consumable parameters.
C30_Agree ==
    BothReturned =>
        /\ Unwrap(can_consume_result).ok <=> pc = "consumer"
        /\ pc = "consumer" <=> SomeMediaCodecMatched

\* the consumable is [H264, RTX, VP8, RTX] and the consumer supports VP8 and
\* RTX: can_consume returned false and get_consumer_rtp_parameters succeeded
\* with VP8 and its RTX codec
C30_Witness ==
    /\ BothReturned
    /\ pc = "consumer"
    /\ Unwrap(can_consume_result) = [error |-> None, ok |-> FALSE]
    /\ Len(consumable_params.codecs) = 4
    /\ consumable_params.codecs[1].mime_type = "video/H264"
    /\ is_rtx(consumable_params.codecs[2])
    /\ ~MatchedByConsumer(consumable_params.codecs[1])
    /\ MatchedByConsumer(consumable_params.codecs[2])
    /\ consumer_params.codecs[1].mime_type = "video/VP8"

\* get_consumer_rtp_parameters succeeds exactly when some media codec is
\* matched, and succeeds whenever can_consume returns true
C30_ConsumerWhenCanConsume ==
    BothReturned =>
        /\ Unwrap(can_consume_result).ok => pc = "consumer"
        /\ pc = "consumer" <=> SomeMediaCodecMatched

====
